---- MODULE Spec2Model ----
(***************************************************************************)
(* A model of rbldnsd (user00265/rbldnsd): the ACL evaluator, the ip4trie  *)
(* and dnset datasets, the DNS name parser, the query router and the       *)
(* reload controller of the server.                                        *)
(*                                                                         *)
(* The module holds several specifications over one set of variables.      *)
(* Each specification drives one component; the variables of the other     *)
(* components stay at their idle value.                                    *)
(*   SpecACL    acl.FromRules / ACL.AllowQuery                             *)
(*   SpecTrie   IP4TrieDataset load and Query                              *)
(*   SpecDN     loadDNSet and DNSetDataset.Query                           *)
(*   SpecPN     dns.parseName, one frame per call                          *)
(*   SpecRoute  Server.handleRequest / queryZones on a loaded zone map     *)
(*   SpecReload file watcher, debounce timer, SIGHUP and config reloads    *)
(*   SpecConc   reloads and queries interleaved under Server.mu            *)
(***************************************************************************)
EXTENDS Integers, Sequences, FiniteSets, TLC

VARIABLES
    \* ---- ACL component (package acl)
    aclPhase,     \* "build": rules are being appended; "serve": published
    aclAllow,     \* ACL.Allow, a sequence of networks
    aclDeny,      \* ACL.Deny, a sequence of networks
    aclSrc,       \* the address of the last AllowQuery call, or NoIP
    aclRes,       \* the result of the last AllowQuery call
    \* ---- ip4trie component (package dataset)
    triePhase,    \* "load": the file is being parsed; "serve": Load returned
    trieNodes,    \* the trie: node path (bits from the root) -> IP4TrieNode
    trieDefVal,   \* IP4TrieDataset.defVal
    trieMaxRange, \* IP4TrieDataset.maxRange
    trieLines,    \* the lines of the zone file parsed so far
    trieQ,        \* the name of the last Query call, or NoName
    trieRes,      \* the result of the last Query call
    \* ---- dnset component (package dataset)
    dnPhase,      \* "load": files are being parsed; "serve": loadDNSet returned
    dnEntries,    \* DNSetDataset.entries
    dnDefVal,     \* DNSetDataset.defVal
    dnQ,          \* the name of the last Query call, or NoName
    dnRes,        \* the result of the last Query call
    \* ---- DNS name parser (package dns)
    pnState,      \* "wait", "run", "done", "error" or "overflow"
    pnData,       \* the datagram being parsed, a sequence of bytes
    pnStack,      \* the active calls of parseName, the innermost last
    pnName,       \* the name the outermost call returned
    \* ---- server (package server)
    zones,        \* Server.zones: zone name -> Zone
    cfg,          \* the config the ConfigManager holds, a sequence of ZoneConfig
    fs,           \* the file system: file name -> content
    req,          \* the handleRequest call in flight, or NoReq
    rqLast,       \* what the last call of queryZones did, or NoQuery
    rqResp,       \* the response handleRequest wrote last, or NoResp
    events,       \* Watcher.Events: the file of the event not yet taken, if any
    reloadTimer,  \* the file the pending debounce timer will reload, or NoFile
    stale,        \* zones with a file event that no rebuild has followed
    failed,       \* the zones the reload of the last step could not build
    rld,          \* the reload that is running step by step, or NoReload
    qry,          \* the queryZones call that is running step by step, or NoLookup
    \* ---- handleRequest on a datagram (package server, package dns)
    dgram,        \* the datagram handleRequest runs on, a sequence of bytes
    hr,           \* where handleRequest is, the questions left and the answers so far
    sent,         \* the response written to the socket, or NoResp
    parseErrors,  \* the calls RecordError("unknown", "parse_error") made
    \* ---- Shutdown (package server, package config)
    done,         \* Server.done, the shutdown flag
    sd,           \* where Shutdown is: "none" before the call, "returned" after it
    cm,           \* the ConfigManager: whether there is one, its watcher, its watchLoop
    watching,     \* Server.watcher: "nil", "open" or "closed"
    cb,           \* the file of the timer callback in flight, or NoFile
    lateWrites,   \* the zones a timer callback stored while the flag was set
    \* ---- generic dataset (package dataset)
    genPhase,     \* "load": the file is being parsed, "serve": loadGeneric returned
    genEntries,   \* GenericDataset.entries: key -> entries
    genLines,     \* the lines of the zone file parsed so far
    genQ,         \* the name and type of the last query, or NoQuery
    genAns,       \* the answers queryZones made of the last query
    \* ---- ip4set dataset (package dataset)
    setPhase,     \* "load" while the file is parsed, "serve" once loadIP4Set returned
    setEntries,   \* IP4SetDataset.entries, in file order
    setDef,       \* IP4SetDataset.def
    setLines,     \* the lines of the zone file parsed so far
    setQ,         \* the name of the last Query call, or NoName
    setRes,       \* the result of the last Query call
    \* ---- encodeName and parseName (package dns)
    nmLabels,     \* the labels of the name given, each a sequence of bytes
    nmOut,        \* what was done with the name and what came of it
    \* ---- combined dataset (package dataset)
    combPhase,    \* "load" while loadCombined runs, then "serve" or "failed"
    combFiles,    \* the contents of the files of the zone, in the order of its file list
    combDatasets, \* CombinedDataset.datasets
    combQ,        \* the name of the last Query call, or NoName
    combRes,      \* the result of the last Query call
    combAsked,    \* the children whose Query the last call called, in call order
    \* ---- the operations on the registry (package server)
    opPath,       \* whether the server has a config file path
    opUp,         \* "new" before server.New, then "up" or "failed"
    opLast,       \* the last operation on the registry, its arguments and the registry before it
    opWrites,     \* the number of times a file was rewritten since server.New
    opMgr,        \* srv.configMgr is not nil
    \* ---- ip6trie dataset (package dataset)
    t6Phase,      \* "load" while the file is parsed, "serve" once loadIP6Trie returned
    t6Nodes,      \* the trie, node path (keys from the root) -> IP6TrieNode
    t6DefVal,     \* IP6TrieDataset.defVal
    t6Lines,      \* the lines of the zone file parsed so far
    t6Q,          \* the name of the last Query call, or NoName
    t6Res,        \* the result of the last Query call
    \* ---- TXT template substitution (package dataset)
    txDs,         \* the dataset, its kind, timestamp and maxRange as the loader left them
    txTemplate,   \* the TXT template of the matching entry
    txOut,        \* the TXTTemplate of the query result, or NoOut
    \* ---- the return value of an entry (package dataset, package server)
    vlKind,       \* the dataset type
    vlText,       \* the text after the key on the entry line
    vlDef,        \* the default value of the dataset
    vlStored,     \* the value the parser stored for the entry, or NoAnswer
    vlA,          \* the address of the A record answered, empty for no record, or NoAnswer
    \* ---- scheduleReload (package server)
    dbNow,        \* the time, in seconds
    dbEvts,       \* the file events watchFiles has taken, with their time and whether a timer was pending
    dbTimer,      \* Server.reloadTimer
    dbArmed,      \* the timers that are armed and have not fired
    dbCbs,        \* the timer functions that were started and have not called ReloadFile yet
    dbRuns,       \* the calls of ReloadFile, with their file and time
    \* ---- rebuilds side by side
    rbFile,       \* content of the zone file, counted in rewrites
    rbEvt,        \* a file event the timer has not served yet
    rbCfgHas,     \* cm.cfg lists the zone
    rbSeq,        \* rebuilds started so far
    rbThr,        \* the rebuild goroutines
    rbLock,       \* holder of the write side of s.zonesMu, 0 for none
    rbZone,       \* s.zones entry of the zone, content and writer
    rbStores,     \* the writers of the entry, in the order of their stores
    rbLastRead,   \* content the last dataset.Load read
    rbSeen,       \* what the last query found
    \* ---- queries on one dataset
    cqLoaded,     \* the dataset as it was published
    cqDs,         \* the dataset as it is now
    cqThr,        \* the goroutines that query it
    \* ---- the read buffer of the loop
    bfBuf,        \* buf of ListenAndServe
    bfWk,         \* the workers started, each with the datagram it was started for
    \* ---- the file watcher
    wtCfg,        \* the config of the manager
    wtWatched,    \* the paths s.watcher watches
    wtLast,       \* the last thing done, and with what
    \* ---- change detection
    dcOld,        \* the config before the reload
    dcNew,        \* the config the file holds now
    dcZones,      \* the registry
    dcChanges,    \* what detectChanges returned
    dcDone,       \* the reload has run
    \* ---- the loop of ListenAndServe
    lsPc,         \* where ListenAndServe is
    lsDone,       \* s.done
    lsSock,       \* the UDP socket, nil, open or closed
    lsSd,         \* where Shutdown is
    lsHandled,    \* workers started
    lsTimeouts,   \* reads that timed out
    lsAfter,      \* steps of the loop since Shutdown closed the socket
    lsFailed      \* a read has failed with s.done set

vACL == <<aclPhase, aclAllow, aclDeny, aclSrc, aclRes>>
vTrie == <<triePhase, trieNodes, trieDefVal, trieMaxRange, trieLines, trieQ, trieRes>>

vDN == <<dnPhase, dnEntries, dnDefVal, dnQ, dnRes>>

vPN == <<pnState, pnData, pnStack, pnName>>

vSrv == <<zones, cfg, fs>>

vRq == <<req, rqLast, rqResp>>

vRl == <<events, reloadTimer, stale, failed>>

vCo == <<rld, qry>>

vMsg == <<dgram, hr, sent, parseErrors>>

vSd == <<done, sd, cm, watching, cb, lateWrites>>

vGen == <<genPhase, genEntries, genLines, genQ, genAns>>

vSet == <<setPhase, setEntries, setDef, setLines, setQ, setRes>>

vNm == <<nmLabels, nmOut>>

vComb == <<combPhase, combFiles, combDatasets, combQ, combRes, combAsked>>

vOp == <<opPath, opUp, opLast, opWrites, opMgr>>

vT6 == <<t6Phase, t6Nodes, t6DefVal, t6Lines, t6Q, t6Res>>

vTx == <<txDs, txTemplate, txOut>>

vVl == <<vlKind, vlText, vlDef, vlStored, vlA>>

vDb == <<dbNow, dbEvts, dbTimer, dbArmed, dbCbs, dbRuns>>

vRb == <<rbFile, rbEvt, rbCfgHas, rbSeq, rbThr, rbLock, rbZone, rbStores, rbLastRead, rbSeen>>

vCq == <<cqLoaded, cqDs, cqThr>>

vBf == <<bfBuf, bfWk>>

vWt == <<wtCfg, wtWatched, wtLast>>

vDc == <<dcOld, dcNew, dcZones, dcChanges, dcDone>>

vLs == <<lsPc, lsDone, lsSock, lsSd, lsHandled, lsTimeouts, lsAfter, lsFailed>>

vars == <<vACL, vTrie, vDN, vPN, vSrv, vRq, vRl, vCo, vMsg, vSd, vGen, vSet, vNm, vComb, vOp, vT6, vTx, vVl, vDb, vRb, vCq, vBf, vWt, vDc, vLs>>

\* What the actions of one component leave alone.
notACL == <<vTrie, vDN, vPN, vSrv, vRq, vRl, vCo, vMsg, vSd, vGen, vSet, vNm, vComb, vOp, vT6, vTx, vVl, vDb, vRb, vCq, vBf, vWt, vDc, vLs>>
notTrie == <<vACL, vDN, vPN, vSrv, vRq, vRl, vCo, vMsg, vSd, vGen, vSet, vNm, vComb, vOp, vT6, vTx, vVl, vDb, vRb, vCq, vBf, vWt, vDc, vLs>>
notDN == <<vACL, vTrie, vPN, vSrv, vRq, vRl, vCo, vMsg, vSd, vGen, vSet, vNm, vComb, vOp, vT6, vTx, vVl, vDb, vRb, vCq, vBf, vWt, vDc, vLs>>
notPN == <<vACL, vTrie, vDN, vSrv, vRq, vRl, vCo, vMsg, vSd, vGen, vSet, vNm, vComb, vOp, vT6, vTx, vVl, vDb, vRb, vCq, vBf, vWt, vDc, vLs>>
notRq == <<vACL, vTrie, vDN, vPN, vRl, vCo, vMsg, vSd, vGen, vSet, vNm, vComb, vOp, vT6, vTx, vVl, vDb, vRb, vCq, vBf, vWt, vDc, vLs>>
notRl == <<vACL, vTrie, vDN, vPN, vRq, vCo, vMsg, vSd, vGen, vSet, vNm, vComb, vOp, vT6, vTx, vVl, vDb, vRb, vCq, vBf, vWt, vDc, vLs>>
notCo == <<vACL, vTrie, vDN, vPN, vRq, vRl, vMsg, vSd, vGen, vSet, vNm, vComb, vOp, vT6, vTx, vVl, vDb, vRb, vCq, vBf, vWt, vDc, vLs>>
notMsg == <<vACL, vTrie, vDN, vPN, vSrv, vRq, vRl, vCo, vSd, vGen, vSet, vNm, vComb, vOp, vT6, vTx, vVl, vDb, vRb, vCq, vBf, vWt, vDc, vLs>>
notSd == <<vACL, vTrie, vDN, vPN, vRq, vCo, vMsg, vGen, vSet, vNm, vComb, vOp, vT6, vTx, vVl, vDb, vRb, vCq, vBf, vWt, vDc, vLs>>
notGen == <<vACL, vTrie, vDN, vPN, vSrv, vRq, vRl, vCo, vMsg, vSd, vSet, vNm, vComb, vOp, vT6, vTx, vVl, vDb, vRb, vCq, vBf, vWt, vDc, vLs>>
notSet == <<vACL, vTrie, vDN, vPN, vSrv, vRq, vRl, vCo, vMsg, vSd, vGen, vNm, vComb, vOp, vT6, vTx, vVl, vDb, vRb, vCq, vBf, vWt, vDc, vLs>>
notNm == <<vACL, vTrie, vDN, vPN, vSrv, vRq, vRl, vCo, vMsg, vSd, vGen, vSet, vComb, vOp, vT6, vTx, vVl, vDb, vRb, vCq, vBf, vWt, vDc, vLs>>
notComb == <<vACL, vTrie, vDN, vPN, vSrv, vRq, vRl, vCo, vMsg, vSd, vGen, vSet, vNm, vOp, vT6, vTx, vVl, vDb, vRb, vCq, vBf, vWt, vDc, vLs>>
notOp == <<vACL, vTrie, vDN, vPN, vRq, vRl, vCo, vMsg, vSd, vGen, vSet, vNm, vComb, vT6, vTx, vVl, vDb, vRb, vCq, vBf, vWt, vDc, vLs>>
notT6 == <<vACL, vTrie, vDN, vPN, vSrv, vRq, vRl, vCo, vMsg, vSd, vGen, vSet, vNm, vComb, vOp, vTx, vVl, vDb, vRb, vCq, vBf, vWt, vDc, vLs>>
notTx == <<vACL, vTrie, vDN, vPN, vSrv, vRq, vRl, vCo, vMsg, vSd, vGen, vSet, vNm, vComb, vOp, vT6, vVl, vDb, vRb, vCq, vBf, vWt, vDc, vLs>>
notVl == <<vACL, vTrie, vDN, vPN, vSrv, vRq, vRl, vCo, vMsg, vSd, vGen, vSet, vNm, vComb, vOp, vT6, vTx, vDb, vRb, vCq, vBf, vWt, vDc, vLs>>
notDb == <<vACL, vTrie, vDN, vPN, vSrv, vRq, vRl, vCo, vMsg, vSd, vGen, vSet, vNm, vComb, vOp, vT6, vTx, vVl, vRb, vCq, vBf, vWt, vDc, vLs>>
notRb == <<vACL, vTrie, vDN, vPN, vSrv, vRq, vRl, vCo, vMsg, vSd, vGen, vSet, vNm, vComb, vOp, vT6, vTx, vVl, vDb, vCq, vBf, vWt, vDc, vLs>>
notCq == <<vACL, vTrie, vDN, vPN, vSrv, vRq, vRl, vCo, vMsg, vSd, vGen, vSet, vNm, vComb, vOp, vT6, vTx, vVl, vDb, vRb, vBf, vWt, vDc, vLs>>
notBf == <<vACL, vTrie, vDN, vPN, vSrv, vRq, vRl, vCo, vMsg, vSd, vGen, vSet, vNm, vComb, vOp, vT6, vTx, vVl, vDb, vRb, vCq, vWt, vDc, vLs>>
notWt == <<vACL, vTrie, vDN, vPN, vSrv, vRq, vRl, vCo, vMsg, vSd, vGen, vSet, vNm, vComb, vOp, vT6, vTx, vVl, vDb, vRb, vCq, vBf, vDc, vLs>>
notDc == <<vACL, vTrie, vDN, vPN, vSrv, vRq, vRl, vCo, vMsg, vSd, vGen, vSet, vNm, vComb, vOp, vT6, vTx, vVl, vDb, vRb, vCq, vBf, vWt, vLs>>
notLs == <<vACL, vTrie, vDN, vPN, vSrv, vRq, vRl, vCo, vMsg, vSd, vGen, vSet, vNm, vComb, vOp, vT6, vTx, vVl, vDb, vRb, vCq, vBf, vWt, vDc>>

None == "none"

\* A nil net.IP.
NoIP == <<>>

\* No query name yet.
NoName == <<>>

\* A nil *QueryResult.
NoResult == [found |-> FALSE]

\* ---------------------------------------------------------------- bounds

\* Longest allow list and longest deny list an ACL is built with.
MaxRules == 2

\* Most lines of a zone file.
MaxLines == 3

\* Most bytes of a datagram after its 12-byte header.
MaxTail == 3

\* Most questions of one message.
MaxQuestions == 2

\* Labels of a name given to the name coder.
MaxLabels == 4

\* Files in the file list of a combined zone.
MaxFiles == 3

\* Versions of the content of a file.
NumContents == 2

\* Pieces in a TXT template.
MaxPieces == 2

\* File events the debounce timer is followed through, and seconds.
MaxEvents == 3
MaxTime == 5

\* The number of file rewrites the operations on the registry are followed
\* through.
MaxWrites == 1

\* The rebuilds that run side by side.
MaxCallbacks == 2

\* The times a zone file is written again.
MaxVersion == 2

\* The queries that run on one dataset side by side.
MaxQueriers == 2

\* Datagrams the loop reads, and bytes of a datagram.
MaxDatagrams == 2
MaxDgramLen == 2

\* -------------------------------------------------------- DNS constants

QueryTypeA == 1
QueryTypeNS == 2
QueryTypeSOA == 6
QueryTypeTXT == 16
QueryTypeANY == 255

RCodeNoError == 0
RCodeNameErr == 3

\* 0x8400, the flags of every response: QR and AA.
ResponseFlags == 33792

\* flags & 0x000F
RCodeMod == 16

\* ------------------------------------------------------------ IPv4, net

\* Bits of one octet of a net.IP, and octets of an IPv4 address.
OctetBits == 8
IP4Len == 4

Pow2(n) == 2 ^ n

\* (octet >> bit) & 1
BitOf(octet, bit) == (octet \div Pow2(bit)) % 2

\* Bit i (0 = most significant) of an address held as a sequence of octets.
IPBit(ip, i) == BitOf(ip[(i \div OctetBits) + 1], (OctetBits - 1) - (i % OctetBits))

\* net.IPNet.Contains for a network [IP, ones] and an address of the same
\* family: the address and the network agree on every bit under the mask.
Contains(n, ip) == \A i \in 0..(n.ones - 1) : IPBit(n.IP, i) = IPBit(ip, i)

Net(ip, ones) == [IP |-> ip, ones |-> ones]

\* ------------------------------------------------------------------ ACL

\* Networks the ACL rules of the model are drawn from, and query sources.
ACLNets ==
    { Net(<<203, 0, 113, 0>>, 24),
      Net(<<192, 168, 0, 0>>, 16),
      Net(<<192, 168, 1, 1>>, 32),
      Net(<<0, 0, 0, 0>>, 0) }

Sources ==
    { <<192, 168, 1, 1>>, <<192, 168, 7, 7>>, <<203, 0, 113, 9>>, <<10, 0, 0, 1>> }

\* The loop `for _, n := range list { if n.Contains(ip) { return true } }`.
RECURSIVE AnyContains(_, _, _)
AnyContains(list, i, ip) ==
    IF i > Len(list) THEN FALSE
    ELSE IF Contains(list[i], ip) THEN TRUE
    ELSE AnyContains(list, i + 1, ip)

\* A plausible slip: the allow list is consulted before the deny list.
AllowQueryAllowFirst(allow, deny, ip) ==
    IF Len(allow) = 0 /\ Len(deny) = 0 THEN TRUE
    ELSE IF Len(allow) > 0 /\ AnyContains(allow, 1, ip) THEN TRUE
    ELSE IF AnyContains(deny, 1, ip) THEN FALSE
    ELSE Len(allow) = 0

\* ACL.AllowQuery
AllowQuery(allow, deny, ip) ==
    IF Len(allow) = 0 /\ Len(deny) = 0 THEN TRUE
    ELSE IF AnyContains(deny, 1, ip) THEN FALSE
    ELSE IF Len(allow) > 0 THEN AnyContains(allow, 1, ip)
    ELSE TRUE

ACLIdle ==
    /\ aclPhase = "idle"
    /\ aclAllow = <<>>
    /\ aclDeny = <<>>
    /\ aclSrc = NoIP
    /\ aclRes = FALSE

\* acl := &ACL{Allow: make(...), Deny: make(...)}
ACLInit ==
    /\ aclPhase = "build"
    /\ aclAllow = <<>>
    /\ aclDeny = <<>>
    /\ aclSrc = NoIP
    /\ aclRes = FALSE

\* FromRules, one allow rule: acl.Allow = append(acl.Allow, *ipnet)
ACLAppendAllow ==
    /\ aclPhase = "build"
    /\ Len(aclAllow) < MaxRules
    /\ \E n \in ACLNets : aclAllow' = Append(aclAllow, n)
    /\ UNCHANGED <<aclPhase, aclDeny, aclSrc, aclRes>>
    /\ UNCHANGED notACL

\* FromRules, one deny rule: acl.Deny = append(acl.Deny, *ipnet)
ACLAppendDeny ==
    /\ aclPhase = "build"
    /\ Len(aclDeny) < MaxRules
    /\ \E n \in ACLNets : aclDeny' = Append(aclDeny, n)
    /\ UNCHANGED <<aclPhase, aclAllow, aclSrc, aclRes>>
    /\ UNCHANGED notACL

\* FromRules returns: the ACL is attached to a zone and no longer changes.
ACLPublish ==
    /\ aclPhase = "build"
    /\ aclPhase' = "serve"
    /\ UNCHANGED <<aclAllow, aclDeny, aclSrc, aclRes>>
    /\ UNCHANGED notACL

\* A call of AllowQuery on the published ACL.
ACLQuery ==
    /\ aclPhase = "serve"
    /\ \E s \in Sources :
        /\ aclSrc' = s
        /\ aclRes' = AllowQuery(aclAllow, aclDeny, s)
    /\ UNCHANGED <<aclPhase, aclAllow, aclDeny>>
    /\ UNCHANGED notACL

\* -------------------------------------------------------------- ip4trie

\* Return values as the datasets store them: "" or "<a>|<txt>".  Names and
\* TXT templates are strings held as sequences of characters.
EmptyValue == <<>>
PackValue(a, txt) == <<a, txt>>

\* The value an entry gets when neither the line nor the dataset gives one.
FallbackValue == PackValue("127.0.0.2", <<>>)

\* strings.SplitN(value, "|", 2) into a QueryResult.
SplitValue(v) == [found |-> TRUE, ARecord |-> v[1], TXTTemplate |-> v[2]]

\* The lines an ip4trie zone file of the model is made of.  An entry line
\* is `[!]<ip-or-cidr> [<:A:TXT>]`; val is what parseATxt made of the text
\* after the address, or EmptyValue when the line has none.  A default
\* line is `:<A>:<TXT>`.
EntryLine(ip, ones, excl, val) ==
    [kind |-> "entry", net |-> Net(ip, ones), excluded |-> excl, val |-> val]
DefaultLine(val) == [kind |-> "default", val |-> val]

TrieFileLines ==
    { EntryLine(<<192, 0, 2, 0>>, 24, FALSE, PackValue("127.0.0.2", <<"s", "p", "a", "m">>)),
      EntryLine(<<192, 0, 2, 50>>, 32, TRUE, EmptyValue),
      EntryLine(<<192, 0, 2, 48>>, 28, FALSE, PackValue("127.0.0.3", <<>>)),
      EntryLine(<<192, 0, 0, 0>>, 8, FALSE, EmptyValue),
      EntryLine(<<0, 0, 0, 0>>, 0, FALSE, EmptyValue),
      EntryLine(<<192, 0, 2, 0>>, 24, TRUE, EmptyValue),
      DefaultLine(PackValue("127.0.0.9", <<"d">>)) }

\* Query names: the labels left of the zone suffix.  A numeric label is
\* held as the number Sscanf("%d") reads from it, any other as BadLabel.
BadLabel == 0 - 1
ReverseName(ip) == <<ip[4], ip[3], ip[2], ip[1]>>

TrieAddrs ==
    { <<192, 0, 2, 5>>, <<192, 0, 2, 50>>, <<192, 0, 2, 51>>,
      <<192, 7, 7, 7>>, <<10, 0, 0, 1>> }

TrieNames ==
    { ReverseName(a) : a \in TrieAddrs } \cup { <<5, 2, 0>>, <<BadLabel, 2, 0, 192>>, <<5, 2, 0, 300>> }

\* parseReverseIP: the first four labels, each a number 0..255, reversed.
parseReverseIP(name) ==
    IF Len(name) < IP4Len THEN NoIP
    ELSE IF \E i \in 1..IP4Len : ~(name[i] \in 0..255) THEN NoIP
    ELSE [i \in 1..IP4Len |-> name[IP4Len + 1 - i]]

\* &IP4TrieNode{}
NewNode == [Value |-> EmptyValue, Excluded |-> FALSE, IsEntry |-> FALSE]

RootPath == <<>>
NilNode == <<-1>>

\* The first n address bits, the path insertTrie walks for a /n network.
PathOf(ip, n) == [i \in 1..n |-> IPBit(ip, i - 1)]

\* A plausible slip: the terminal node is marked as an entry but the
\* exclusion flag of the line is dropped.
insertTrieNoExcl(nodes, ip, ones, value, excluded) ==
    LET made == { PathOf(ip, k) : k \in 0..ones }
        grown == [p \in (DOMAIN nodes) \cup made |->
                     IF p \in DOMAIN nodes THEN nodes[p] ELSE NewNode]
    IN  [grown EXCEPT ![PathOf(ip, ones)] =
            [Value |-> value, Excluded |-> FALSE, IsEntry |-> TRUE]]

\* IP4TrieDataset.insertTrie: create the nodes along the first `ones` bits
\* of ip, then set the terminal node.
insertTrie(nodes, ip, ones, value, excluded) ==
    LET made == { PathOf(ip, k) : k \in 0..ones }
        grown == [p \in (DOMAIN nodes) \cup made |->
                     IF p \in DOMAIN nodes THEN nodes[p] ELSE NewNode]
    IN  [grown EXCEPT ![PathOf(ip, ones)] =
            [Value |-> value, Excluded |-> excluded, IsEntry |-> TRUE]]

\* node.Children[idx], NilNode when the child was never created.
Child(nodes, node, bit) ==
    IF Append(node, bit) \in DOMAIN nodes THEN Append(node, bit) ELSE NilNode

\* A plausible slip: the walk keeps the first node with a value, not the last.
RECURSIVE findWalkFirst(_, _, _, _, _)
findWalkFirst(nodes, ip, i, node, best) ==
    IF i = IP4Len * OctetBits
    THEN IF node # NilNode /\ nodes[node].Value # EmptyValue /\ best = NilNode
         THEN node ELSE best
    ELSE IF node = NilNode THEN best
    ELSE findWalkFirst(nodes, ip, i + 1, Child(nodes, node, IPBit(ip, i)),
                       IF nodes[node].Value # EmptyValue /\ best = NilNode
                       THEN node ELSE best)

\* The loops of findNode over the octets and bits of the address, bit i
\* next, and its last test after them.
RECURSIVE findWalk(_, _, _, _, _)
findWalk(nodes, ip, i, node, best) ==
    IF i = IP4Len * OctetBits
    THEN IF node # NilNode /\ nodes[node].Value # EmptyValue THEN node ELSE best
    ELSE IF node = NilNode THEN best
    ELSE findWalk(nodes, ip, i + 1, Child(nodes, node, IPBit(ip, i)),
                  IF nodes[node].Value # EmptyValue THEN node ELSE best)

\* IP4TrieDataset.findNode
findNode(nodes, ip) == findWalk(nodes, ip, 0, RootPath, NilNode)

\* IP4TrieDataset.Query
TrieQueryResult(nodes, defVal, name) ==
    LET ip == parseReverseIP(name)
        node == findNode(nodes, ip)
    IN  IF ip = NoIP THEN NoResult
        ELSE IF node = NilNode \/ ~nodes[node].IsEntry \/ nodes[node].Excluded
        THEN NoResult
        ELSE LET v1 == nodes[node].Value
                 v2 == IF v1 = EmptyValue THEN defVal ELSE v1
                 v3 == IF v2 = EmptyValue THEN FallbackValue ELSE v2
             IN  SplitValue(v3)

TrieIdle ==
    /\ triePhase = "idle"
    /\ trieNodes = <<>>
    /\ trieDefVal = EmptyValue
    /\ trieMaxRange = 0
    /\ trieLines = <<>>
    /\ trieQ = NoName
    /\ trieRes = NoResult

\* loadIP4Trie: ds := &IP4TrieDataset{root: &IP4TrieNode{}}
TrieInit ==
    /\ triePhase = "load"
    /\ trieNodes = [p \in {RootPath} |-> NewNode]
    /\ trieDefVal = EmptyValue
    /\ trieMaxRange = 0
    /\ trieLines = <<>>
    /\ trieQ = NoName
    /\ trieRes = NoResult

\* parseIP4TrieFileWithSilent, one `:A:TXT` line.
TrieParseDefault ==
    /\ triePhase = "load"
    /\ Len(trieLines) < MaxLines
    /\ \E l \in TrieFileLines :
        /\ l.kind = "default"
        /\ trieDefVal' = l.val
        /\ trieLines' = Append(trieLines, l)
    /\ UNCHANGED <<triePhase, trieNodes, trieMaxRange, trieQ, trieRes>>
    /\ UNCHANGED notTrie

\* parseIP4TrieFileWithSilent, one entry line.
TrieParseEntry ==
    /\ triePhase = "load"
    /\ Len(trieLines) < MaxLines
    /\ \E l \in TrieFileLines :
        /\ l.kind = "entry"
        /\ LET v1 == IF l.val # EmptyValue THEN l.val ELSE trieDefVal
               value == IF v1 = EmptyValue THEN FallbackValue ELSE v1
           IN  /\ trieMaxRange' =
                    IF l.net.ones < trieMaxRange \/ trieMaxRange = 0
                    THEN l.net.ones ELSE trieMaxRange
               /\ trieNodes' = insertTrie(trieNodes, l.net.IP, l.net.ones,
                                          value, l.excluded)
        /\ trieLines' = Append(trieLines, l)
    /\ UNCHANGED <<triePhase, trieDefVal, trieQ, trieRes>>
    /\ UNCHANGED notTrie

\* loadIP4Trie returns the dataset.
TrieLoaded ==
    /\ triePhase = "load"
    /\ triePhase' = "serve"
    /\ UNCHANGED <<trieNodes, trieDefVal, trieMaxRange, trieLines, trieQ, trieRes>>
    /\ UNCHANGED notTrie

\* A call of Query on the loaded dataset.
TrieQuery ==
    /\ triePhase = "serve"
    /\ \E n \in TrieNames :
        /\ trieQ' = n
        /\ trieRes' = TrieQueryResult(trieNodes, trieDefVal, n)
    /\ UNCHANGED <<triePhase, trieNodes, trieDefVal, trieMaxRange, trieLines>>
    /\ UNCHANGED notTrie

\* ---------------------------------------------------------------- dnset

\* strings.HasSuffix, strings.TrimSuffix
HasSuffix(str, suf) ==
    /\ Len(suf) <= Len(str)
    /\ SubSeq(str, Len(str) - Len(suf) + 1, Len(str)) = suf

TrimSuffix(str, suf) ==
    IF HasSuffix(str, suf) THEN SubSeq(str, 1, Len(str) - Len(suf)) ELSE str

\* strings.ToLower on the letters of the model.
LowerChar(c) ==
    IF c = "X" THEN "x" ELSE IF c = "Y" THEN "y" ELSE IF c = "Z" THEN "z"
    ELSE IF c = "A" THEN "a" ELSE IF c = "B" THEN "b" ELSE c

ToLower(str) == [i \in 1..Len(str) |-> LowerChar(str[i])]

Dot == <<".">>

\* if !strings.HasSuffix(name, ".") { name += "." }
WithDot(name) == IF HasSuffix(name, Dot) THEN name ELSE name \o Dot

\* strings.ReplaceAll(template, "$", subst)
RECURSIVE ReplaceDollar(_, _)
ReplaceDollar(template, subst) ==
    IF template = <<>> THEN <<>>
    ELSE (IF Head(template) = "$" THEN subst ELSE <<Head(template)>>)
         \o ReplaceDollar(Tail(template), subst)

\* substituteTXT
substituteTXT(template, subst) ==
    IF template = <<>> THEN template ELSE ReplaceDollar(template, subst)

\* The lines a dnset zone file of the model is made of: `[!]<name> [<:A:TXT>]`
\* with the name token as written (`*.` prefix, letter case), or `:<A>:<TXT>`.
DNLine(neg, token, val) ==
    [kind |-> "entry", negated |-> neg, token |-> token, val |-> val]

DNFileLines ==
    { DNLine(FALSE, <<"*", ".", "x">>, PackValue("127.0.0.2", <<"w", "$">>)),
      DNLine(TRUE, <<"y", ".", "x">>, EmptyValue),
      DNLine(FALSE, <<"z", ".", "X">>, PackValue("127.0.0.3", <<>>)),
      DNLine(FALSE, <<"y", ".", "x">>, PackValue("127.0.0.4", <<>>)),
      DNLine(FALSE, <<"*", ".", "z", ".", "x">>, PackValue("127.0.0.5", <<>>)),
      DNLine(TRUE, <<"*", ".", "x">>, EmptyValue),
      DNLine(FALSE, <<"*", ".", "x">>, EmptyValue),
      DefaultLine(PackValue("127.0.0.9", <<"d">>)) }

DNNames ==
    { <<"y", ".", "x">>, <<"z", ".", "x">>, <<"w", ".", "x">>, <<"Y", ".", "X">>,
      <<"x">>, <<"a", ".", "z", ".", "x">>, <<"w", "y", ".", "x">>, <<"q">> }

\* The comparison loadDNSet sorts by: plain entries before wildcards, and
\* within a class longer names first.
DNLess(ei, ej) ==
    IF ei.Wildcard # ej.Wildcard THEN ~ei.Wildcard
    ELSE Len(ei.Name) > Len(ej.Name)

\* What sort.Slice may leave: any order of the entries in which no entry
\* stands before one that is less than it (sort.Slice is not stable).
DNSorted(entries) ==
    LET n == Len(entries)
        perms == { p \in [1..n -> 1..n] : \A a, b \in 1..n : a # b => p[a] # p[b] }
    IN  { [i \in 1..n |-> entries[p[i]]] : p \in
            { q \in perms : \A i, j \in 1..n :
                i < j => ~DNLess(entries[q[j]], entries[q[i]]) } }

\* The result Query builds from a matched entry.
DNResultOf(entry, name) ==
    IF entry.Negated THEN NoResult
    ELSE [found |-> TRUE,
          ARecord |-> entry.Value[1],
          TXTTemplate |-> substituteTXT(entry.Value[2], TrimSuffix(name, Dot))]

\* First loop of Query: the first plain entry whose name is the query's, 0
\* when there is none.
RECURSIVE DNFirstExact(_, _, _)
DNFirstExact(entries, i, name) ==
    IF i > Len(entries) THEN 0
    ELSE IF ~entries[i].Wildcard /\ entries[i].Name = name THEN i
    ELSE DNFirstExact(entries, i + 1, name)

\* Second loop of Query: the first wildcard entry the name is, or ends
\* with "." and, the name of.
RECURSIVE DNFirstWild(_, _, _)
DNFirstWild(entries, i, name) ==
    IF i > Len(entries) THEN 0
    ELSE IF /\ entries[i].Wildcard
            /\ (HasSuffix(name, Dot \o entries[i].Name) \/ name = entries[i].Name)
         THEN i
    ELSE DNFirstWild(entries, i + 1, name)

\* A plausible slip: the wildcard loop runs before the exact loop.
DNQueryWildFirst(entries, qname) ==
    LET name == WithDot(ToLower(qname))
        e == DNFirstExact(entries, 1, name)
        w == DNFirstWild(entries, 1, name)
    IN  IF w # 0 THEN DNResultOf(entries[w], name)
        ELSE IF e # 0 THEN DNResultOf(entries[e], name)
        ELSE NoResult

\* DNSetDataset.Query
DNQueryResult(entries, qname) ==
    LET name == WithDot(ToLower(qname))
        e == DNFirstExact(entries, 1, name)
        w == DNFirstWild(entries, 1, name)
    IN  IF e # 0 THEN DNResultOf(entries[e], name)
        ELSE IF w # 0 THEN DNResultOf(entries[w], name)
        ELSE NoResult

DNIdle ==
    /\ dnPhase = "idle"
    /\ dnEntries = <<>>
    /\ dnDefVal = EmptyValue
    /\ dnQ = NoName
    /\ dnRes = NoResult

\* loadDNSet: ds := &DNSetDataset{entries: make([]*DNSetEntry, 0)}
DNInit ==
    /\ dnPhase = "load"
    /\ dnEntries = <<>>
    /\ dnDefVal = EmptyValue
    /\ dnQ = NoName
    /\ dnRes = NoResult

\* parseDNSetFile, one `:A:TXT` line.
DNParseDefault ==
    /\ dnPhase = "load"
    /\ Len(dnEntries) < MaxLines
    /\ \E l \in DNFileLines :
        /\ l.kind = "default"
        /\ dnDefVal' = l.val
    /\ UNCHANGED <<dnPhase, dnEntries, dnQ, dnRes>>
    /\ UNCHANGED notDN

\* parseDNSetFile, one entry line.
DNParseEntry ==
    /\ dnPhase = "load"
    /\ Len(dnEntries) < MaxLines
    /\ \E l \in DNFileLines :
        /\ l.kind = "entry"
        /\ LET low == ToLower(l.token)
               wildcard == Len(low) >= 2 /\ SubSeq(low, 1, 2) = <<"*", ".">>
               name == WithDot(IF wildcard THEN SubSeq(low, 3, Len(low)) ELSE low)
               v1 == IF l.val # EmptyValue /\ ~l.negated THEN l.val ELSE dnDefVal
               value == IF v1 = EmptyValue THEN FallbackValue ELSE v1
           IN  dnEntries' = Append(dnEntries,
                   [Name |-> name, Value |-> value,
                    Wildcard |-> wildcard, Negated |-> l.negated])
    /\ UNCHANGED <<dnPhase, dnDefVal, dnQ, dnRes>>
    /\ UNCHANGED notDN

\* loadDNSet, after the files: sort.Slice(ds.entries, ...) and return.
DNLoaded ==
    /\ dnPhase = "load"
    /\ dnPhase' = "serve"
    /\ dnEntries' \in DNSorted(dnEntries)
    /\ UNCHANGED <<dnDefVal, dnQ, dnRes>>
    /\ UNCHANGED notDN

\* A call of Query on the loaded dataset.
DNQuery ==
    /\ dnPhase = "serve"
    /\ \E n \in DNNames :
        /\ dnQ' = n
        /\ dnRes' = DNQueryResult(dnEntries, n)
    /\ UNCHANGED <<dnPhase, dnEntries, dnDefVal>>
    /\ UNCHANGED notDN

\* ------------------------------------------------------------ parseName

\* The length of a DNS header, where the first question starts.
HeaderLen == 12

\* The header of the datagrams of the model: ID 1, a query, QDCount 1.
Header == <<0, 1, 0, 0, 0, 1, 0, 0, 0, 0, 0, 0>>

\* Bytes the rest of a datagram is made of: the terminator, label lengths
\* 1 and 2, the letter a, the dot, a pointer byte (0xc0), the offsets 12
\* and 13, and a length with the reserved bits 01 (0x40).
TailBytes == {0, 1, 2, 97, 46, 192, 12, 13, 64}

Datagrams ==
    { Header \o t : t \in UNION { [1..n -> TailBytes] : n \in 0..MaxTail } }

DotByte == 46

\* length & 0xc0 and length & 0x3f of a byte.
TopBits(b) == (b \div 64) * 64
LowBits(b) == b % 64

\* The name parseName builds from its labels: the labels joined by ".",
\* and a final "." unless that leaves the empty string.
RECURSIVE JoinLabels(_, _)
JoinLabels(labels, i) ==
    IF i > Len(labels) THEN <<>>
    ELSE (IF i > 1 THEN <<DotByte>> ELSE <<>>) \o labels[i] \o JoinLabels(labels, i + 1)

NameOf(labels) ==
    LET j == JoinLabels(labels, 1) IN IF j = <<>> THEN j ELSE j \o <<DotByte>>

\* strings.Split(str, ".")
RECURSIVE SplitDots(_, _)
SplitDots(str, cur) ==
    LET dots == {i \in 1..Len(str) : str[i] = DotByte}
    IN  IF dots = {} THEN <<cur \o str>>
        ELSE LET d == CHOOSE i \in dots : \A j \in dots : i <= j
             IN  <<cur \o SubSeq(str, 1, d - 1)>>
                     \o SplitDots(SubSeq(str, d + 1, Len(str)), <<>>)

\* strings.Split(strings.TrimSuffix(ptrName, "."), ".")
LabelsOfName(name) == SplitDots(TrimSuffix(name, <<DotByte>>), <<>>)

\* A call parseName(data, offset) at its entry.
Frame(offset) == [start |-> offset, offset |-> offset, labels |-> <<>>, fin |-> FALSE]

PNTop == pnStack[Len(pnStack)]

\* data[offset], offsets counted from 0.
ByteAt(offset) == pnData[offset + 1]

\* The call parseName(data, ptr) never returns when a call with the same
\* offset is already active: the same bytes lead to the same call again.
PNReenters(stack, ptr) == \E i \in 1..Len(stack) : stack[i].start = ptr

PNIdle ==
    /\ pnState = "idle"
    /\ pnData = <<>>
    /\ pnStack = <<>>
    /\ pnName = <<>>

PNInit ==
    /\ pnState = "wait"
    /\ pnData = <<>>
    /\ pnStack = <<>>
    /\ pnName = <<>>

\* ParseMessage calls parseName(data, 12) for the first question.
PNCall ==
    /\ pnState \in {"wait", "done", "error"}
    /\ \E d \in Datagrams :
        /\ pnData' = d
        /\ pnStack' = <<Frame(HeaderLen)>>
    /\ pnState' = "run"
    /\ pnName' = <<>>
    /\ UNCHANGED notPN

\* One turn of the loop of the innermost call that ends the loop without
\* an error: the data is used up, or the byte is the terminator.
PNLoopEnds ==
    /\ pnState = "run"
    /\ ~PNTop.fin
    /\ \/ PNTop.offset >= Len(pnData)
       \/ (PNTop.offset < Len(pnData) /\ ByteAt(PNTop.offset) = 0)
    /\ pnStack' = [pnStack EXCEPT ![Len(pnStack)].fin = TRUE,
                                  ![Len(pnStack)].offset =
                                      IF PNTop.offset >= Len(pnData) THEN @ ELSE @ + 1]
    /\ UNCHANGED <<pnState, pnData, pnName>>
    /\ UNCHANGED notPN

\* One turn of the loop that reads a label.
PNLabel ==
    /\ pnState = "run"
    /\ ~PNTop.fin
    /\ PNTop.offset < Len(pnData)
    /\ LET length == ByteAt(PNTop.offset)
           offset == PNTop.offset + 1
       IN  /\ length # 0
           /\ TopBits(length) = 0
           /\ offset + length <= Len(pnData)
           /\ pnStack' = [pnStack EXCEPT
                  ![Len(pnStack)].labels =
                      Append(@, SubSeq(pnData, offset + 1, offset + length)),
                  ![Len(pnStack)].offset = offset + length]
    /\ UNCHANGED <<pnState, pnData, pnName>>
    /\ UNCHANGED notPN

\* One turn of the loop that fails: a truncated pointer, a length with the
\* reserved bits 01 or 10, or a truncated label.  Every caller returns the
\* error at once.
PNError ==
    /\ pnState = "run"
    /\ ~PNTop.fin
    /\ PNTop.offset < Len(pnData)
    /\ LET length == ByteAt(PNTop.offset)
           offset == PNTop.offset + 1
       IN  /\ length # 0
           /\ \/ (TopBits(length) = 192 /\ offset >= Len(pnData))
              \/ (TopBits(length) # 192 /\ TopBits(length) # 0)
              \/ (TopBits(length) = 0 /\ offset + length > Len(pnData))
    /\ pnState' = "error"
    /\ pnStack' = <<>>
    /\ UNCHANGED <<pnData, pnName>>
    /\ UNCHANGED notPN

\* One turn of the loop that reads a compression pointer and calls
\* parseName(data, ptr).  When that call can never return, the recursion
\* goes on until the Go runtime ends the process (fatal: stack overflow).
PNPointer ==
    /\ pnState = "run"
    /\ ~PNTop.fin
    /\ PNTop.offset < Len(pnData)
    /\ LET length == ByteAt(PNTop.offset)
           offset == PNTop.offset + 1
       IN  /\ TopBits(length) = 192
           /\ offset < Len(pnData)
           /\ LET ptr == LowBits(length) * 256 + ByteAt(offset)
              IN  IF PNReenters(pnStack, ptr)
                  THEN /\ pnState' = "overflow"
                       /\ pnStack' = Append(pnStack, Frame(ptr))
                  ELSE /\ pnState' = pnState
                       /\ pnStack' =
                            Append([pnStack EXCEPT ![Len(pnStack)].offset = offset + 1],
                                   Frame(ptr))
    /\ UNCHANGED <<pnData, pnName>>
    /\ UNCHANGED notPN

\* The innermost call returns its name: to ParseMessage, or to the call
\* that followed the pointer, which appends the labels and leaves its loop.
PNReturn ==
    /\ pnState = "run"
    /\ PNTop.fin
    /\ IF Len(pnStack) = 1
       THEN /\ pnState' = "done"
            /\ pnName' = NameOf(PNTop.labels)
            /\ pnStack' = <<>>
       ELSE /\ pnStack' =
                [SubSeq(pnStack, 1, Len(pnStack) - 1) EXCEPT
                    ![Len(pnStack) - 1].labels =
                        @ \o LabelsOfName(NameOf(PNTop.labels)),
                    ![Len(pnStack) - 1].fin = TRUE]
            /\ UNCHANGED <<pnState, pnName>>
    /\ UNCHANGED pnData
    /\ UNCHANGED notPN

\* --------------------------------------------------------------- server

\* Zone files and ACL files of the model, and the empty file name.
Files == {"fA", "fB", "fC"}
NoFile == ""

\* What a file holds: nothing that can be opened, or one of its versions.
Unreadable == 0
Contents == 0..NumContents

\* Zone names, names asked, and names the zone files list.
NameB == <<"b">>
NameBDot == <<"b", ".">>
NameAB == <<"a", ".", "b">>
NameX == <<"x">>
NameXA == <<"x", ".", "a">>
NoZone == <<>>

\* A nil *acl.ACL.
NoACL == [set |-> FALSE, Allow |-> <<>>, Deny |-> <<>>]

\* A zero config.SOAConfig, and a nil *config.SOAConfig.
NoSOA == [MName |-> "", RName |-> "", Minimum |-> 0]
NilSOA == [set |-> FALSE, MName |-> "", RName |-> "", Minimum |-> 0]

\* A nil dataset.Dataset.
NoDataset == [contents |-> <<>>, complete |-> FALSE]

\* The dataset types dataset.Load knows.
DataTypes ==
    {"generic", "ip4set", "ip4trie", "ip4tset", "ip6trie", "ip6tset", "dnset", "combined"}

\* config.ZoneConfig, of the type the zones of the model have unless
\* another is given.
ZoneConfig(name, files, aclFile, allow, deny, ns, soa) ==
    [Name |-> name, Type |-> "dnset", Files |-> files, ACL |-> aclFile,
     ACLRule |-> [Allow |-> allow, Deny |-> deny], NS |-> ns, SOA |-> soa]

\* The names a zone file of version k lists, and the TXT text it gives
\* them; every name is listed with the A record 127.0.0.2.
ListedIn(k) == IF k = 1 THEN {NameX} ELSE {NameX, NameXA}
TxtIn(k) == IF k = 1 THEN "" ELSE "t"

\* The ACL an ACL file of version k holds.
ACLIn(k) ==
    IF k = 1 THEN [set |-> TRUE, Allow |-> <<>>, Deny |-> <<Net(<<10, 0, 0, 0>>, 8)>>]
    ELSE [set |-> TRUE, Allow |-> <<Net(<<192, 168, 0, 0>>, 16)>>, Deny |-> <<>>]

\* dataset.Load(zc.Type, zc.Files, ...): an error when the type is not
\* known or a file cannot be read, else the dataset built from the content
\* of every file.
LoadDataset(zc, files) ==
    IF zc.Type \notin DataTypes
    THEN [ok |-> FALSE, ds |-> NoDataset]
    ELSE IF \E i \in 1..Len(zc.Files) : files[zc.Files[i]] = Unreadable
    THEN [ok |-> FALSE, ds |-> NoDataset]
    ELSE [ok |-> TRUE,
          ds |-> [contents |-> [i \in 1..Len(zc.Files) |-> files[zc.Files[i]]],
                  complete |-> TRUE]]

\* The ACL of a zone: the inline rules when there are any, else the ACL
\* file when one is named, else none.
LoadZoneACL(zc, files) ==
    IF Len(zc.ACLRule.Allow) > 0 \/ Len(zc.ACLRule.Deny) > 0
    THEN [ok |-> TRUE,
          acl |-> [set |-> TRUE, Allow |-> zc.ACLRule.Allow, Deny |-> zc.ACLRule.Deny]]
    ELSE IF zc.ACL # NoFile
    THEN IF files[zc.ACL] = Unreadable
         THEN [ok |-> FALSE, acl |-> NoACL]
         ELSE [ok |-> TRUE, acl |-> ACLIn(files[zc.ACL])]
    ELSE [ok |-> TRUE, acl |-> NoACL]

\* srv.defaultTTL and srv.soaMinimum of a server whose config sets neither.
defaultTTL == 3600
soaMinimum == 3600

\* The SOA of a zone: MName defaults to the first nameserver, Minimum to
\* the server's; the zone has an SOA when MName and RName are both set.
ZoneSOA(zc) ==
    LET mname == IF Len(zc.NS) > 0 /\ zc.SOA.MName = "" THEN zc.NS[1] ELSE zc.SOA.MName
    IN  IF mname # "" /\ zc.SOA.RName # ""
        THEN [set |-> TRUE, MName |-> mname, RName |-> zc.SOA.RName,
              Minimum |-> IF zc.SOA.Minimum = 0 THEN soaMinimum ELSE zc.SOA.Minimum]
        ELSE NilSOA

\* &Zone{...}
NewZone(zc, ds, zoneACL) ==
    [name |-> zc.Name, files |-> zc.Files, dataset |-> ds, acl |-> zoneACL,
     ns |-> zc.NS, soa |-> ZoneSOA(zc)]

\* Whether a zone of a config can be built from the files, and the Zone.
CanBuild(zc, files) == LoadDataset(zc, files).ok /\ LoadZoneACL(zc, files).ok
BuiltZone(zc, files) == NewZone(zc, LoadDataset(zc, files).ds, LoadZoneACL(zc, files).acl)

\* A plausible slip: one zone that cannot be built and nothing is loaded.
LoadedZonesAllOrNone(config, files) ==
    IF \A i \in 1..Len(config) : CanBuild(config[i], files)
    THEN [n \in { config[i].Name : i \in 1..Len(config) } |->
            BuiltZone(config[CHOOSE i \in 1..Len(config) :
                                /\ config[i].Name = n
                                /\ \A j \in 1..Len(config) : config[j].Name = n => j <= i],
                      files)]
    ELSE <<>>

\* The map loadZones builds: the zones of the config that can be built.
LoadedZones(config, files) ==
    LET built == { i \in 1..Len(config) : CanBuild(config[i], files) }
        names == { config[i].Name : i \in built }
    IN  [n \in names |->
            BuiltZone(config[CHOOSE i \in built :
                                /\ config[i].Name = n
                                /\ \A j \in built : config[j].Name = n => j <= i],
                      files)]

\* ----------------------------------------------- handleRequest, queryZones

\* The zone name with a trailing dot, as queryZones compares it.
ZoneDot(zoneName) == IF HasSuffix(zoneName, Dot) THEN zoneName ELSE zoneName \o Dot

\* A plausible slip: the length of the suffix is not compared, the loop
\* ends with the zone it saw last.
MatchedZonesAnySuffix(zs, name) ==
    LET within == { z \in DOMAIN zs : HasSuffix(name, ZoneDot(z)) }
    IN  IF within = {} THEN {NoZone} ELSE within

\* The zones the loop over s.zones can end with.  The loop keeps a zone
\* when its dotted name is a suffix of the query name and longer than the
\* one kept so far; Go ranges over a map in no fixed order, so of two zones
\* with dotted names of one length either can be the one kept.
MatchedZones(zs, name) ==
    LET within == { z \in DOMAIN zs : HasSuffix(name, ZoneDot(z)) }
        longest == { z \in within : \A y \in within : Len(ZoneDot(y)) <= Len(ZoneDot(z)) }
    IN  IF within = {} THEN {NoZone} ELSE longest

\* A call queryZones makes that the claims speak of.
Call(op, zone, name, what) == [op |-> op, zone |-> zone, name |-> name, what |-> what]

\* dns.ResourceRecord.  The TTL is the server default, which is also the
\* TTL the datasets of the model give their results; the SOA record gets
\* its own.
Record(name, type, data) ==
    [Name |-> name, Type |-> type, TTL |-> defaultTTL, Data |-> data]

\* Dataset.Query of the datasets of the model, after the zone suffix was
\* stripped: the first file that lists the name answers.
DatasetQuery(ds, queryName) ==
    LET hits == { i \in 1..Len(ds.contents) : queryName \in ListedIn(ds.contents[i]) }
    IN  IF hits = {} THEN NoResult
        ELSE LET i == CHOOSE h \in hits : \A g \in hits : h <= g
             IN  [found |-> TRUE, ARecord |-> "127.0.0.2", TXTTemplate |-> TxtIn(ds.contents[i])]

\* The records queryZones makes of a dataset result, by query type.  The A
\* record of the model's datasets is an IPv4 address, which EncodeAAAA
\* turns down.
ARecords(name, result) ==
    IF result.ARecord # "" THEN <<Record(name, QueryTypeA, result.ARecord)>> ELSE <<>>

TXTRecords(name, result) ==
    IF result.TXTTemplate # "" THEN <<Record(name, QueryTypeTXT, result.TXTTemplate)>> ELSE <<>>

ResultRecords(name, qtype, result) ==
    IF qtype = QueryTypeA THEN ARecords(name, result)
    ELSE IF qtype = QueryTypeTXT THEN TXTRecords(name, result)
    ELSE IF qtype = QueryTypeANY THEN ARecords(name, result) \o TXTRecords(name, result)
    ELSE <<>>

\* The part of queryZones after the ACL check for a query that is not
\* answered at the apex: strip the zone suffix, ask the dataset.
QueryDataset(z, m, name, qtype) ==
    LET queryName == TrimSuffix(TrimSuffix(name, ZoneDot(m)), Dot)
        result == DatasetQuery(z.dataset, queryName)
    IN  [zone |-> m,
         calls |-> <<Call("Query", m, queryName, ""),
                     Call("RecordResponse", m, NoName,
                          IF result.found THEN "found" ELSE "notfound")>>,
         answers |-> IF result.found THEN ResultRecords(name, qtype, result) ELSE <<>>]

\* Whether queryZones answers at the apex of the zone: an NS query of a
\* zone with nameservers, an SOA query of a zone with an SOA.
ApexNS(z, m, name, qtype) ==
    (name = ZoneDot(m) \/ name = m) /\ qtype = QueryTypeNS /\ Len(z.ns) > 0

ApexSOA(z, m, name, qtype) ==
    (name = ZoneDot(m) \/ name = m) /\ qtype = QueryTypeSOA /\ z.soa.set

\* A plausible slip: the SOA record gets the default TTL and only the
\* first nameserver is answered.
QueryAllowedFirstNS(z, m, name, qtype) ==
    IF ApexNS(z, m, name, qtype)
    THEN [zone |-> m,
          calls |-> <<Call("RecordResponse", m, NoName, "found")>>,
          answers |-> <<Record(ZoneDot(m), QueryTypeNS, z.ns[1])>>]
    ELSE IF ApexSOA(z, m, name, qtype)
    THEN [zone |-> m,
          calls |-> <<Call("RecordResponse", m, NoName, "found")>>,
          answers |-> <<Record(ZoneDot(m), QueryTypeSOA, z.soa.MName)>>]
    ELSE QueryDataset(z, m, name, qtype)

\* The part of queryZones after the ACL check: NS and SOA at the apex,
\* else the dataset.  The nameserver and SOA names of the model are names
\* EncodeNS and EncodeSOA accept.
QueryAllowed(z, m, name, qtype) ==
    IF ApexNS(z, m, name, qtype)
    THEN [zone |-> m,
          calls |-> <<Call("RecordResponse", m, NoName, "found")>>,
          answers |-> [i \in 1..Len(z.ns) |-> Record(ZoneDot(m), QueryTypeNS, z.ns[i])]]
    ELSE IF ApexSOA(z, m, name, qtype)
    THEN [zone |-> m,
          calls |-> <<Call("RecordResponse", m, NoName, "found")>>,
          answers |-> <<[Record(ZoneDot(m), QueryTypeSOA, z.soa.MName)
                           EXCEPT !.TTL = z.soa.Minimum]>>]
    ELSE QueryDataset(z, m, name, qtype)

\* A plausible slip: the apex is answered before the ACL is looked at.
queryZonesApexFirst(zs, m, remoteIP, name, qtype) ==
    IF m = NoZone THEN [zone |-> NoZone, calls |-> <<>>, answers |-> <<>>]
    ELSE LET z == zs[m]
             r == QueryAllowed(z, m, name, qtype)
         IN  IF ApexNS(z, m, name, qtype) \/ ApexSOA(z, m, name, qtype) THEN r
             ELSE IF z.acl.set /\ ~AllowQuery(z.acl.Allow, z.acl.Deny, remoteIP)
             THEN [zone |-> m,
                   calls |-> <<Call("RecordError", m, NoName, "acl_denied")>>,
                   answers |-> <<>>]
             ELSE r

\* queryZones for the zone m its loop ended with (NoZone: none matched):
\* the zone answering, the calls made, the records returned.
queryZones(zs, m, remoteIP, name, qtype) ==
    IF m = NoZone THEN [zone |-> NoZone, calls |-> <<>>, answers |-> <<>>]
    ELSE LET z == zs[m]
         IN  IF z.acl.set /\ ~AllowQuery(z.acl.Allow, z.acl.Deny, remoteIP)
             THEN [zone |-> m,
                   calls |-> <<Call("RecordError", m, NoName, "acl_denied")>>,
                   answers |-> <<>>]
             ELSE QueryAllowed(z, m, name, qtype)

\* A plausible slip: NXDOMAIN for every empty answer list.
ResponseCodeEmpty(answers, questions) ==
    IF answers = 0 THEN RCodeNameErr ELSE RCodeNoError

\* The rcode handleRequest picks from len(answers) and len(msg.Questions).
ResponseCode(answers, questions) ==
    IF answers = 0 /\ questions > 0 THEN RCodeNameErr ELSE RCodeNoError

\* The header BuildResponse writes: flags 0x8400 | rcode (the low four bits
\* of 0x8400 are clear and rcode is below 16), then the counts.
BuildResponse(questions, answers, rcode) ==
    [sent |-> TRUE, flags |-> ResponseFlags + rcode,
     QDCount |-> questions, ANCount |-> Len(answers), answers |-> answers]

\* Header.RCode of a message: flags & 0x000F.
RCodeOf(flags) == flags % RCodeMod

NoReq == [on |-> FALSE]
NoQuery == [asked |-> FALSE]
NoResp == [sent |-> FALSE]

\* Names and types asked, and the addresses asking.
QNames ==
    { <<"x", ".", "a", ".", "b", ".">>, <<"a", ".", "b", ".">>,
      <<"x", ".", "b", ".">>, <<"b", ".">>, <<"c", ".">> }

QTypes == {QueryTypeA, QueryTypeNS, QueryTypeSOA, QueryTypeTXT}

RqSources == { <<192, 168, 1, 1>>, <<10, 0, 0, 1>> }

\* The zones a routing config is made of.
RouteZoneConfigs ==
    << ZoneConfig(NameB, <<"fA">>, NoFile, <<>>, <<>>, <<>>, NoSOA),
       ZoneConfig(NameAB, <<"fB">>, NoFile, <<>>, <<Net(<<10, 0, 0, 0>>, 8)>>,
                  <<"ns1", "ns2">>, [MName |-> "", RName |-> "r", Minimum |-> 300]),
       ZoneConfig(NameBDot, <<"fB">>, "fC", <<>>, <<>>, <<"ns1">>,
                  [MName |-> "", RName |-> "r", Minimum |-> 0]) >>

RECURSIVE SubSeqOf(_, _, _)
SubSeqOf(seq, keep, i) ==
    IF i > Len(seq) THEN <<>>
    ELSE (IF i \in keep THEN <<seq[i]>> ELSE <<>>) \o SubSeqOf(seq, keep, i + 1)

RouteConfigs ==
    { SubSeqOf(RouteZoneConfigs, keep, 1) : keep \in SUBSET (1..Len(RouteZoneConfigs)) }

NoReload == [on |-> FALSE]
NoLookup == [on |-> FALSE]

CoIdle ==
    /\ rld = NoReload
    /\ qry = NoLookup

RlIdle ==
    /\ events = <<>>
    /\ reloadTimer = NoFile
    /\ stale = {}
    /\ failed = {}

RqIdle ==
    /\ req = NoReq
    /\ rqLast = NoQuery
    /\ rqResp = NoResp

\* server.New: the zones of the config are loaded from the files.
RouteInit ==
    /\ cfg \in RouteConfigs
    /\ \E k \in 1..NumContents : fs = [f \in Files |-> k]
    /\ zones = LoadedZones(cfg, fs)
    /\ RqIdle
    /\ RlIdle
    /\ CoIdle

\* handleRequest up to its loop: a datagram that does not parse is counted
\* and dropped, a response (QR set) is dropped, a query goes on.
RqReceive ==
    /\ req = NoReq
    /\ \/ /\ req' = NoReq
          /\ rqLast' = [asked |-> FALSE,
                        calls |-> <<Call("RecordError", <<"unknown">>, NoName,
                                         "parse_error")>>]
       \/ /\ req' = NoReq
          /\ rqLast' = NoQuery
       \/ \E src \in RqSources, n \in 0..MaxQuestions :
            /\ req' = [on |-> TRUE, src |-> src, total |-> n, left |-> n,
                       answers |-> <<>>]
            /\ rqLast' = NoQuery
    /\ rqResp' = NoResp
    /\ UNCHANGED <<zones, cfg, fs>>
    /\ UNCHANGED notRq

\* One turn of the loop over msg.Questions: queryZones, RecordQuery.
RqQuestion ==
    /\ req # NoReq
    /\ req.left > 0
    /\ \E name \in QNames, qtype \in QTypes :
        \E m \in MatchedZones(zones, name) :
            LET r == queryZones(zones, m, req.src, name, qtype)
            IN  /\ req' = [req EXCEPT !.left = @ - 1, !.answers = @ \o r.answers]
                /\ rqLast' = [asked |-> TRUE, name |-> name, qtype |-> qtype,
                              src |-> req.src, zone |-> r.zone, calls |-> r.calls,
                              answers |-> r.answers]
    /\ UNCHANGED <<rqResp, zones, cfg, fs>>
    /\ UNCHANGED notRq

\* The end of handleRequest: the rcode, BuildResponse, WriteToUDP.
RqRespond ==
    /\ req # NoReq
    /\ req.left = 0
    /\ rqResp' = BuildResponse(req.total, req.answers,
                               ResponseCode(Len(req.answers), req.total))
    /\ req' = NoReq
    /\ UNCHANGED <<rqLast, zones, cfg, fs>>
    /\ UNCHANGED notRq

\* ------------------------------------------------------ reload controller

\* The configs of the reload model: two zones, the second with an ACL
\* file; the first zone alone; the two zones with another nameserver for
\* the first.
ZcA == ZoneConfig(NameB, <<"fA">>, NoFile, <<>>, <<>>, <<"ns1">>, NoSOA)
ZcA2 == ZoneConfig(NameB, <<"fA">>, NoFile, <<>>, <<>>, <<"ns2">>, NoSOA)
ZcB == ZoneConfig(NameAB, <<"fB">>, "fC", <<>>, <<>>, <<>>, NoSOA)

ReloadConfigs == { <<ZcA, ZcB>>, <<ZcA>>, <<ZcA2, ZcB>> }

ConfigNames(config) == { config[i].Name : i \in 1..Len(config) }

\* The files the watcher is told to watch: the zone files and ACL files
\* of the config.
WatchList(config) ==
    UNION { { config[i].Files[j] : j \in 1..Len(config[i].Files) } \cup
            (IF config[i].ACL # NoFile THEN {config[i].ACL} ELSE {})
            : i \in 1..Len(config) }

\* The zones of a config that list a file among their zone files.
ZonesListing(config, file) ==
    { config[i].Name : i \in { k \in 1..Len(config) :
                                 \E j \in 1..Len(config[k].Files) : config[k].Files[j] = file } }

\* s.zones[name] = zone
PutZone(zs, name, zone) ==
    [n \in DOMAIN zs \cup {name} |-> IF n = name THEN zone ELSE zs[n]]

\* Whether ReloadFile takes a zone for affected by the changed file.
Affected(zc, changedFile) ==
    \/ \E j \in 1..Len(zc.Files) : zc.Files[j] = changedFile
    \/ zc.ACL = changedFile

\* ReloadFile from the i-th zone of the config on: an affected zone that
\* can be built is stored, one that cannot is skipped.
RECURSIVE ReloadFileFrom(_, _, _, _, _)
ReloadFileFrom(zs, config, files, changedFile, i) ==
    IF i > Len(config) THEN zs
    ELSE IF Affected(config[i], changedFile) /\ CanBuild(config[i], files)
    THEN ReloadFileFrom(PutZone(zs, config[i].Name, BuiltZone(config[i], files)),
                        config, files, changedFile, i + 1)
    ELSE ReloadFileFrom(zs, config, files, changedFile, i + 1)

\* A plausible slip: every zone of the config is rebuilt.
ReloadFileAll(zs, config, files, changedFile) ==
    LET new == LoadedZones(config, files)
    IN  [n \in DOMAIN zs \cup DOMAIN new |-> IF n \in DOMAIN new THEN new[n] ELSE zs[n]]

\* The registry after ReloadFile(changedFile).
ReloadFile(zs, config, files, changedFile) ==
    ReloadFileFrom(zs, config, files, changedFile, 1)

\* A plausible slip: Reload keeps the zones it had.
ReloadKeeping(zs, config, files) ==
    LET new == LoadedZones(config, files)
    IN  [n \in DOMAIN zs \cup DOMAIN new |-> IF n \in DOMAIN new THEN new[n] ELSE zs[n]]

\* The registry after Reload(): loadZones replaces the whole map by the
\* zones it could build.
Reload(zs, config, files) == LoadedZones(config, files)

\* The zone config a name stands for in detectChanges (the last of that
\* name), and in handleConfigReload (the first).
LastNamed(config, name) ==
    config[CHOOSE i \in 1..Len(config) :
               /\ config[i].Name = name
               /\ \A j \in 1..Len(config) : config[j].Name = name => j <= i]

FirstNamed(config, name) ==
    config[CHOOSE i \in 1..Len(config) :
               /\ config[i].Name = name
               /\ \A j \in 1..Len(config) : config[j].Name = name => i <= j]

\* config.zoneConfigChanged: type, files, ACL file, nameservers and SOA are
\* compared, the inline ACL rules are not.
zoneConfigChanged(old, new) ==
    \/ old.Type # new.Type
    \/ old.Files # new.Files
    \/ old.ACL # new.ACL
    \/ old.NS # new.NS
    \/ old.SOA # new.SOA

\* config.detectChanges
detectChanges(oldCfg, newCfg) ==
    [Added |-> ConfigNames(newCfg) \ ConfigNames(oldCfg),
     Removed |-> ConfigNames(oldCfg) \ ConfigNames(newCfg),
     Updated |-> { n \in ConfigNames(oldCfg) \cap ConfigNames(newCfg) :
                     zoneConfigChanged(LastNamed(oldCfg, n), LastNamed(newCfg, n)) }]

\* A plausible slip: the removed zones are left in the registry.
handleConfigReloadNoDelete(zs, newCfg, changes, files) ==
    LET built == { n \in changes.Added \cup changes.Updated :
                     CanBuild(FirstNamed(newCfg, n), files) }
    IN  [n \in DOMAIN zs \cup built |->
            IF n \in built THEN BuiltZone(FirstNamed(newCfg, n), files) ELSE zs[n]]

\* The registry after handleConfigReload: removed zones are deleted, added
\* and updated zones that can be built are stored, the others are kept.
handleConfigReload(zs, newCfg, changes, files) ==
    LET kept == DOMAIN zs \ changes.Removed
        built == { n \in changes.Added \cup changes.Updated :
                     CanBuild(FirstNamed(newCfg, n), files) }
    IN  [n \in kept \cup built |->
            IF n \in built THEN BuiltZone(FirstNamed(newCfg, n), files) ELSE zs[n]]

\* server.New with a config file and auto reload: the zones are loaded (New
\* fails when none could be), the watcher watches the files of the config.
ReloadInit ==
    /\ cfg \in ReloadConfigs
    /\ fs = [f \in Files |-> 1]
    /\ zones = LoadedZones(cfg, fs)
    /\ RlIdle
    /\ RqIdle
    /\ CoIdle

\* Something outside the server rewrites a file; the watcher gets an event
\* when it watches the file.  Watcher.Events has no buffer: the event waits
\* there for watchFiles, and the event of a later write waits behind it, so
\* that write is taken to happen once the channel is free.
FileWrite ==
    /\ \E f \in Files, c \in Contents :
        /\ c # fs[f]
        /\ fs' = [fs EXCEPT ![f] = c]
        /\ IF f \in WatchList(cfg)
           THEN /\ events = <<>>
                /\ events' = Append(events, f)
                /\ stale' = stale \cup ZonesListing(cfg, f)
           ELSE UNCHANGED <<events, stale>>
    /\ failed' = {}
    /\ UNCHANGED <<zones, cfg, reloadTimer>>
    /\ UNCHANGED notRl

\* watchFiles takes an event and calls scheduleReload: the timer that was
\* pending is stopped, a new one is set for the file of this event.
WatchEvent ==
    /\ events # <<>>
    /\ reloadTimer' = Head(events)
    /\ events' = Tail(events)
    /\ failed' = {}
    /\ UNCHANGED <<zones, cfg, fs, stale>>
    /\ UNCHANGED notRl

\* The debounce timer fires: ReloadFile(changedFile).
TimerFire ==
    /\ reloadTimer # NoFile
    /\ zones' = ReloadFile(zones, cfg, fs, reloadTimer)
    /\ failed' = { cfg[i].Name : i \in { k \in 1..Len(cfg) :
                        Affected(cfg[k], reloadTimer) /\ ~CanBuild(cfg[k], fs) } }
    /\ stale' = stale \ ZonesListing(cfg, reloadTimer)
    /\ reloadTimer' = NoFile
    /\ UNCHANGED <<cfg, fs, events>>
    /\ UNCHANGED notRl

\* SIGHUP: Reload().
Sighup ==
    /\ zones' = Reload(zones, cfg, fs)
    /\ failed' = { cfg[i].Name : i \in { k \in 1..Len(cfg) : ~CanBuild(cfg[k], fs) } }
    /\ stale' = stale \ ConfigNames(cfg)
    /\ UNCHANGED <<cfg, fs, events, reloadTimer>>
    /\ UNCHANGED notRl

\* The config file was rewritten: reloadConfig stores the new config and
\* calls handleConfigReload with the changes.
ConfigReload ==
    /\ \E newCfg \in ReloadConfigs :
        /\ newCfg # cfg
        /\ LET changes == detectChanges(cfg, newCfg)
           IN  /\ zones' = handleConfigReload(zones, newCfg, changes, fs)
               /\ failed' = { n \in changes.Added \cup changes.Updated :
                                ~CanBuild(FirstNamed(newCfg, n), fs) }
               /\ stale' = (stale \cap ConfigNames(newCfg)) \
                               (changes.Added \cup changes.Updated)
        /\ cfg' = newCfg
    /\ UNCHANGED <<fs, events, reloadTimer>>
    /\ UNCHANGED notRl

\* ------------------------------------------- queries during a reload

\* A Zone and its dataset are written by the goroutine that builds them
\* and by no one after they are stored in s.zones, so a *Zone is held here
\* as its value.  A dataset that dataset.Load has not finished has
\* complete = FALSE.

\* The zone configs of a config that ReloadFile takes for affected.
AffectedConfigs(config, changedFile) ==
    SubSeqOf(config, { i \in 1..Len(config) : Affected(config[i], changedFile) }, 1)

\* The zone configs handleConfigReload builds: the added and updated ones.
ChangedConfigs(newCfg, changes) ==
    SubSeqOf(newCfg, { i \in 1..Len(newCfg) :
                         /\ newCfg[i].Name \in changes.Added \cup changes.Updated
                         /\ newCfg[i] = FirstNamed(newCfg, newCfg[i].Name) }, 1)

\* A reload at the start of its work.
StartedReload(path, remove, work) ==
    [on |-> TRUE, path |-> path, remove |-> remove, work |-> work,
     pc |-> IF remove # {} THEN "remove" ELSE IF work # <<>> THEN "load" ELSE "swap",
     ds |-> NoDataset, acl |-> NoACL, newZones |-> <<>>]

\* A reload after it stored or skipped the zone it was building: the next
\* zone; after the last one Reload swaps the map, the other paths return.
NextZoneOf(r) ==
    IF Len(r.work) > 1
    THEN [r EXCEPT !.work = Tail(@), !.pc = "load", !.ds = NoDataset, !.acl = NoACL]
    ELSE IF r.path = "Reload"
    THEN [r EXCEPT !.work = <<>>, !.pc = "swap", !.ds = NoDataset, !.acl = NoACL]
    ELSE NoReload

\* A plausible slip: the zone is stored while it is still being built.
ReadyToStoreEarly(r) == r.on /\ r.pc \in {"parse", "acl", "store"}

\* The zone is stored once its dataset and its ACL are loaded.
ReadyToStore(r) == r.on /\ r.pc = "store"

\* s.zonesMu.Lock() goes through when no query holds the read lock.
CanLock(q) == ~q.on

\* A field of a Zone, as queryZones reads it.
FieldOf(zone, field) ==
    IF field = "acl" THEN [acl |-> zone.acl]
    ELSE IF field = "apex" THEN [ns |-> zone.ns, soa |-> zone.soa]
    ELSE [dataset |-> zone.dataset]

\* Names asked while zones are reloaded, all with the type NS: the apex of
\* a zone, and a name inside a zone.
CoNames == { <<"x", ".", "a", ".", "b", ".">>, <<"b", ".">> }
CoTypes == {QueryTypeNS}

\* server.New with a config file.
CoInit ==
    /\ cfg \in ReloadConfigs
    /\ fs = [f \in Files |-> 1]
    /\ zones = LoadedZones(cfg, fs)
    /\ CoIdle
    /\ RqIdle
    /\ RlIdle

\* The debounce timer calls ReloadFile(changedFile): the zones affected.
CoReloadFile ==
    /\ rld = NoReload
    /\ \E changedFile \in Files :
        /\ AffectedConfigs(cfg, changedFile) # <<>>
        /\ rld' = StartedReload("ReloadFile", {}, AffectedConfigs(cfg, changedFile))
    /\ UNCHANGED <<zones, cfg, fs, qry>>
    /\ UNCHANGED notCo

\* SIGHUP calls Reload(): loadZones over every zone of the config.
CoReload ==
    /\ rld = NoReload
    /\ rld' = StartedReload("Reload", {}, cfg)
    /\ UNCHANGED <<zones, cfg, fs, qry>>
    /\ UNCHANGED notCo

\* reloadConfig stores the new config and calls handleConfigReload.
CoConfigReload ==
    /\ rld = NoReload
    /\ \E newCfg \in ReloadConfigs :
        /\ newCfg # cfg
        /\ cfg' = newCfg
        /\ LET changes == detectChanges(cfg, newCfg)
               r == StartedReload("handleConfigReload", changes.Removed,
                                  ChangedConfigs(newCfg, changes))
           IN  rld' = IF r.pc = "swap" THEN NoReload ELSE r
    /\ UNCHANGED <<zones, fs, qry>>
    /\ UNCHANGED notCo

\* handleConfigReload deletes one removed zone under the write lock.
CoRemove ==
    /\ rld.on
    /\ rld.pc = "remove"
    /\ CanLock(qry)
    /\ \E n \in rld.remove :
        /\ zones' = [z \in DOMAIN zones \ {n} |-> zones[z]]
        /\ rld' = IF rld.remove # {n} THEN [rld EXCEPT !.remove = @ \ {n}]
                  ELSE IF rld.work # <<>> THEN [rld EXCEPT !.remove = {}, !.pc = "load"]
                  ELSE NoReload
    /\ UNCHANGED <<cfg, fs, qry>>
    /\ UNCHANGED notCo

\* dataset.Load opens the files of the zone: an error skips the zone, else
\* the dataset is there and being filled.  The files hold what was last
\* written to them from outside, which can be anything.
CoLoadBegin ==
    /\ rld.on
    /\ rld.pc = "load"
    /\ \E files \in [Files -> Contents] :
        LET l == LoadDataset(Head(rld.work), files)
        IN  rld' = IF l.ok
                   THEN [rld EXCEPT !.pc = "parse", !.ds = [l.ds EXCEPT !.complete = FALSE]]
                   ELSE NextZoneOf(rld)
    /\ UNCHANGED <<zones, cfg, fs, qry>>
    /\ UNCHANGED notCo

\* dataset.Load returns the dataset.
CoLoadEnd ==
    /\ rld.on
    /\ rld.pc = "parse"
    /\ rld' = [rld EXCEPT !.pc = "acl", !.ds.complete = TRUE]
    /\ UNCHANGED <<zones, cfg, fs, qry>>
    /\ UNCHANGED notCo

\* The ACL of the zone is loaded: an error skips the zone.
CoLoadACL ==
    /\ rld.on
    /\ rld.pc = "acl"
    /\ \E files \in [Files -> Contents] :
        LET l == LoadZoneACL(Head(rld.work), files)
        IN  rld' = IF l.ok THEN [rld EXCEPT !.pc = "store", !.acl = l.acl]
                   ELSE NextZoneOf(rld)
    /\ UNCHANGED <<zones, cfg, fs, qry>>
    /\ UNCHANGED notCo

\* The Zone is made and stored: by loadZones in its own new map, by the
\* other paths in s.zones under the write lock.
CoStore ==
    /\ ReadyToStore(rld)
    /\ LET zc == Head(rld.work)
           zone == NewZone(zc, rld.ds, rld.acl)
       IN  IF rld.path = "Reload"
           THEN /\ rld' = NextZoneOf([rld EXCEPT !.newZones = PutZone(@, zc.Name, zone)])
                /\ UNCHANGED zones
           ELSE /\ CanLock(qry)
                /\ zones' = PutZone(zones, zc.Name, zone)
                /\ rld' = NextZoneOf(rld)
    /\ UNCHANGED <<cfg, fs, qry>>
    /\ UNCHANGED notCo

\* loadZones replaces s.zones by its new map under the write lock.
CoSwap ==
    /\ rld.on
    /\ rld.pc = "swap"
    /\ CanLock(qry)
    /\ zones' = rld.newZones
    /\ rld' = NoReload
    /\ UNCHANGED <<cfg, fs, qry>>
    /\ UNCHANGED notCo

\* queryZones takes the read lock and finds the zone; without a zone it
\* returns at once.
CoQueryMatch ==
    /\ ~qry.on
    /\ \E src \in RqSources, name \in CoNames, qtype \in CoTypes :
        \E m \in MatchedZones(zones, name) :
            /\ m # NoZone
            /\ qry' = [on |-> TRUE, pc |-> "acl", src |-> src, name |-> name,
                       qtype |-> qtype, m |-> m, zone |-> zones[m], reads |-> <<>>]
    /\ UNCHANGED <<zones, cfg, fs, rld>>
    /\ UNCHANGED notCo

\* queryZones reads matchedZone.acl: a rejected source ends the query.
CoQueryACL ==
    /\ qry.on
    /\ qry.pc = "acl"
    /\ LET zoneACL == qry.zone.acl
       IN  qry' = [qry EXCEPT
                     !.reads = Append(@, [field |-> "acl", value |-> [acl |-> zoneACL]]),
                     !.pc = IF zoneACL.set /\ ~AllowQuery(zoneACL.Allow, zoneACL.Deny, qry.src)
                            THEN "return" ELSE "apex"]
    /\ UNCHANGED <<zones, cfg, fs, rld>>
    /\ UNCHANGED notCo

\* queryZones reads matchedZone.ns and matchedZone.soa: an apex answer
\* ends the query.
CoQueryApex ==
    /\ qry.on
    /\ qry.pc = "apex"
    /\ qry' = [qry EXCEPT
                 !.reads = Append(@, [field |-> "apex",
                                      value |-> [ns |-> qry.zone.ns, soa |-> qry.zone.soa]]),
                 !.pc = IF ApexNS(qry.zone, qry.m, qry.name, qry.qtype)
                           \/ ApexSOA(qry.zone, qry.m, qry.name, qry.qtype)
                        THEN "return" ELSE "dataset"]
    /\ UNCHANGED <<zones, cfg, fs, rld>>
    /\ UNCHANGED notCo

\* queryZones calls matchedZone.dataset.Query.
CoQueryDataset ==
    /\ qry.on
    /\ qry.pc = "dataset"
    /\ qry' = [qry EXCEPT
                 !.reads = Append(@, [field |-> "dataset",
                                      value |-> [dataset |-> qry.zone.dataset]]),
                 !.pc = "return"]
    /\ UNCHANGED <<zones, cfg, fs, rld>>
    /\ UNCHANGED notCo

\* queryZones returns: the deferred RUnlock.
CoQueryReturn ==
    /\ qry.on
    /\ qry.pc = "return"
    /\ qry' = NoLookup
    /\ UNCHANGED <<zones, cfg, fs, rld>>
    /\ UNCHANGED notCo

SrvIdle ==
    /\ zones = <<>>
    /\ cfg = <<>>
    /\ fs = <<>>
    /\ RqIdle
    /\ RlIdle
    /\ CoIdle

\* ------------------------------------------- handleRequest on a datagram

\* string(bytes): the characters of the names of the model; any other
\* byte is written as its number.
Char(b) ==
    CASE b = 97 -> "a" [] b = 98 -> "b" [] b = 120 -> "x" [] b = 66 -> "B"
      [] b = DotByte -> "." [] OTHER -> ToString(b)

Chars(bytes) == [i \in 1..Len(bytes) |-> Char(bytes[i])]

\* parseName(data, offset) as a function: the loop from offset on with the
\* labels read so far.  active holds the offsets of the calls of parseName
\* that have not returned; a pointer to one of them starts a recursion
\* that never ends ("overflow").
RECURSIVE parseName(_, _, _, _)
parseName(data, offset, labels, active) ==
    IF offset >= Len(data)
    THEN [kind |-> "ok", name |-> NameOf(labels), offset |-> offset]
    ELSE LET length == data[offset + 1]
             next == offset + 1
         IN  IF length = 0
             THEN [kind |-> "ok", name |-> NameOf(labels), offset |-> next]
             ELSE IF TopBits(length) = 192
             THEN IF next >= Len(data)
                  THEN [kind |-> "err", name |-> <<>>, offset |-> 0]
                  ELSE LET ptr == LowBits(length) * 256 + data[next + 1]
                       IN  IF ptr \in active
                           THEN [kind |-> "overflow", name |-> <<>>, offset |-> 0]
                           ELSE LET r == parseName(data, ptr, <<>>, active \cup {ptr})
                                IN  IF r.kind # "ok" THEN [r EXCEPT !.offset = 0]
                                    ELSE [kind |-> "ok",
                                          name |-> NameOf(labels \o LabelsOfName(r.name)),
                                          offset |-> next + 1]
             ELSE IF TopBits(length) # 0
             THEN [kind |-> "err", name |-> <<>>, offset |-> 0]
             ELSE IF next + length > Len(data)
             THEN [kind |-> "err", name |-> <<>>, offset |-> 0]
             ELSE parseName(data, next + length,
                            Append(labels, SubSeq(data, next + 1, next + length)),
                            active)

\* flags & 0x8000
QRFlag == 32768

\* (uint16(data[i]) << 8) | uint16(data[i+1]), offsets counted from 0.
Uint16At(data, i) == data[i + 1] * 256 + data[i + 2]

\* The loop of ParseMessage over the questions.
RECURSIVE ParseQuestions(_, _, _, _)
ParseQuestions(data, offset, left, questions) ==
    IF left = 0 THEN [kind |-> "ok", questions |-> questions]
    ELSE LET r == parseName(data, offset, <<>>, {offset})
         IN  IF r.kind # "ok" THEN [kind |-> r.kind, questions |-> <<>>]
             ELSE IF r.offset + 4 > Len(data)
             THEN [kind |-> "err", questions |-> <<>>]
             ELSE ParseQuestions(data, r.offset + 4, left - 1,
                      Append(questions,
                             [Name |-> r.name, Type |-> Uint16At(data, r.offset)]))

\* dns.ParseMessage: the header fields handleRequest uses, the questions.
ParseMessage(data) ==
    IF Len(data) < HeaderLen THEN [kind |-> "err", QR |-> FALSE, questions |-> <<>>]
    ELSE LET qs == ParseQuestions(data, HeaderLen, Uint16At(data, 4), <<>>)
         IN  [kind |-> qs.kind, QR |-> Uint16At(data, 2) >= QRFlag,
              questions |-> qs.questions]

\* Bytes the questions of a datagram are made of: the terminator and the
\* high byte of a type, the length 1 and the class IN, the type NS, the
\* letters b and B, a pointer byte (0xc0), the offset 12, and a length with
\* the reserved bits 01 (0x40).
MsgBytes == {0, 1, 2, 98, 66, 192, 12, 64}

\* A header with the QR bit and the question count given.
HeaderOf(qr, qd) == <<0, 1, qr * 128, 0, 0, qd, 0, 0, 0, 0, 0, 0>>

\* The datagrams received: cut-off headers, and headers followed by up to
\* MaxTail bytes and then nothing, half a type, or a type and a class.
MsgDatagrams ==
    { SubSeq(Header, 1, n) : n \in 0..(HeaderLen - 1) }
    \cup { HeaderOf(qr, qd) \o t \o e :
             qr \in {0, 1}, qd \in 0..MaxQuestions,
             t \in UNION { [1..n -> MsgBytes] : n \in 0..MaxTail },
             e \in { <<>>, <<0>>, <<0, QueryTypeNS, 0, 1>> } }

\* The config of the server that receives them.
MsgConfig == << ZoneConfig(NameB, <<"fA">>, NoFile, <<>>, <<>>, <<"ns1">>, NoSOA) >>

MsgSource == <<192, 168, 1, 1>>

MsgIdle ==
    /\ dgram = <<>>
    /\ hr = [pc |-> "idle"]
    /\ sent = NoResp
    /\ parseErrors = 0

\* A datagram has arrived at a server whose zones are loaded; handleRequest
\* is about to run on it.
MsgInit ==
    /\ cfg = MsgConfig
    /\ fs = [f \in Files |-> 1]
    /\ zones = LoadedZones(cfg, fs)
    /\ RqIdle
    /\ RlIdle
    /\ CoIdle
    /\ dgram \in MsgDatagrams
    /\ hr = [pc |-> "recv", total |-> 0, left |-> <<>>, answers |-> <<>>]
    /\ sent = NoResp
    /\ parseErrors = 0

\* ParseMessage returns an error: RecordError("unknown", "parse_error"),
\* return.
MsgParseError ==
    /\ hr.pc = "recv"
    /\ ParseMessage(dgram).kind = "err"
    /\ parseErrors' = parseErrors + 1
    /\ hr' = [hr EXCEPT !.pc = "done"]
    /\ UNCHANGED <<dgram, sent>>
    /\ UNCHANGED notMsg

\* ParseMessage never returns: the recursion of parseName ends the process.
MsgCrash ==
    /\ hr.pc = "recv"
    /\ ParseMessage(dgram).kind = "overflow"
    /\ hr' = [hr EXCEPT !.pc = "crashed"]
    /\ UNCHANGED <<dgram, sent, parseErrors>>
    /\ UNCHANGED notMsg

\* The message is a response (QR set): return.
MsgIgnore ==
    /\ hr.pc = "recv"
    /\ ParseMessage(dgram).kind = "ok"
    /\ ParseMessage(dgram).QR
    /\ hr' = [hr EXCEPT !.pc = "done"]
    /\ UNCHANGED <<dgram, sent, parseErrors>>
    /\ UNCHANGED notMsg

\* The message is a query: the loop over msg.Questions starts.
MsgAccept ==
    /\ hr.pc = "recv"
    /\ ParseMessage(dgram).kind = "ok"
    /\ ~ParseMessage(dgram).QR
    /\ hr' = [pc |-> "loop", total |-> Len(ParseMessage(dgram).questions),
              left |-> ParseMessage(dgram).questions, answers |-> <<>>]
    /\ UNCHANGED <<dgram, sent, parseErrors>>
    /\ UNCHANGED notMsg

\* One turn of the loop: queryZones(remoteAddr.IP, q.Name, q.Type).
MsgQuestion ==
    /\ hr.pc = "loop"
    /\ hr.left # <<>>
    /\ LET q == Head(hr.left)
       IN  \E m \in MatchedZones(zones, Chars(q.Name)) :
             hr' = [hr EXCEPT
                      !.left = Tail(@),
                      !.answers = @ \o queryZones(zones, m, MsgSource,
                                                  Chars(q.Name), q.Type).answers]
    /\ UNCHANGED <<dgram, sent, parseErrors>>
    /\ UNCHANGED notMsg

\* The end of handleRequest: the rcode, BuildResponse, WriteToUDP.
MsgRespond ==
    /\ hr.pc = "loop"
    /\ hr.left = <<>>
    /\ sent' = BuildResponse(hr.total, hr.answers,
                             ResponseCode(Len(hr.answers), hr.total))
    /\ hr' = [hr EXCEPT !.pc = "done"]
    /\ UNCHANGED <<dgram, parseErrors>>
    /\ UNCHANGED notMsg

\* ----------------------------------------------------------- Shutdown

\* The ConfigManager as server.New can leave it: no manager (no config
\* path, or NewConfigManager failed); a manager whose Start failed before
\* it had a watcher, or after (watcher.Add failed), either way with no
\* watchLoop; a manager with its watchLoop running.
NoManager == [mgr |-> FALSE, watcher |-> "nil", loop |-> "none"]

ManagersAfterNew ==
    { NoManager,
      [mgr |-> TRUE, watcher |-> "nil", loop |-> "none"],
      [mgr |-> TRUE, watcher |-> "open", loop |-> "none"],
      [mgr |-> TRUE, watcher |-> "open", loop |-> "select"] }

\* The goroutine of a timer callback that dereferenced a nil configMgr.
Panicked == "panic"

SdIdle ==
    /\ done = FALSE
    /\ sd = "idle"
    /\ cm = NoManager
    /\ watching = "nil"
    /\ cb = NoFile
    /\ lateWrites = {}

\* server.New has returned a server; with auto reload its watcher is open.
ShutInit ==
    /\ cfg \in ReloadConfigs
    /\ fs = [f \in Files |-> 1]
    /\ zones = LoadedZones(cfg, fs)
    /\ RlIdle
    /\ RqIdle
    /\ CoIdle
    /\ done = FALSE
    /\ sd = "none"
    /\ cm \in ManagersAfterNew
    /\ watching \in {"nil", "open"}
    /\ cb = NoFile
    /\ lateWrites = {}

\* A watched file is rewritten and the open watcher has an event for
\* watchFiles.
SdFileEvent ==
    /\ cb # Panicked
    /\ watching = "open"
    /\ events = <<>>
    /\ \E f \in WatchList(cfg), c \in 1..NumContents :
        /\ c # fs[f]
        /\ fs' = [fs EXCEPT ![f] = c]
        /\ events' = <<f>>
    /\ UNCHANGED <<zones, cfg, reloadTimer, stale, failed>>
    /\ UNCHANGED <<done, sd, cm, watching, cb, lateWrites>>
    /\ UNCHANGED notSd

\* watchFiles takes the event and calls scheduleReload.  An event handed
\* over while the watcher is being closed can still arrive.
SdWatchEvent ==
    /\ cb # Panicked
    /\ events # <<>>
    /\ reloadTimer' = Head(events)
    /\ events' = Tail(events)
    /\ UNCHANGED <<zones, cfg, fs, stale, failed>>
    /\ UNCHANGED <<done, sd, cm, watching, cb, lateWrites>>
    /\ UNCHANGED notSd

\* The debounce timer fires: its callback starts in a goroutine of its
\* own.  One callback at a time is followed.
SdTimerFire ==
    /\ cb = NoFile
    /\ reloadTimer # NoFile
    /\ cb' = reloadTimer
    /\ reloadTimer' = NoFile
    /\ UNCHANGED <<zones, cfg, fs, events, stale, failed>>
    /\ UNCHANGED <<done, sd, cm, watching, lateWrites>>
    /\ UNCHANGED notSd

\* The callback runs ReloadFile(changedFile): s.configMgr.Get(), then every
\* affected zone that can be built is stored in s.zones.  The callback
\* does not read s.done.
SdCallback ==
    /\ cb \notin {NoFile, Panicked}
    /\ IF ~cm.mgr
       THEN /\ cb' = Panicked
            /\ UNCHANGED <<zones, lateWrites>>
       ELSE /\ zones' = ReloadFile(zones, cfg, fs, cb)
            /\ lateWrites' =
                 IF done
                 THEN lateWrites \cup
                      { cfg[i].Name : i \in { k \in 1..Len(cfg) :
                            Affected(cfg[k], cb) /\ CanBuild(cfg[k], fs) } }
                 ELSE lateWrites
            /\ cb' = NoFile
    /\ UNCHANGED <<cfg, fs, events, reloadTimer, stale, failed>>
    /\ UNCHANGED <<done, sd, cm, watching>>
    /\ UNCHANGED notSd

\* Shutdown: s.done.Store(true).
SdFlag ==
    /\ cb # Panicked
    /\ sd = "none"
    /\ done' = TRUE
    /\ sd' = "flag"
    /\ UNCHANGED <<cm, watching, cb, lateWrites>>
    /\ UNCHANGED <<vSrv, vRl>>
    /\ UNCHANGED notSd

\* Shutdown: the listener is closed and metrics.Shutdown returns, within
\* the shutdown timeout at the latest.
SdCloseListener ==
    /\ cb # Panicked
    /\ sd = "flag"
    /\ sd' = "metrics"
    /\ UNCHANGED <<done, cm, watching, cb, lateWrites>>
    /\ UNCHANGED <<vSrv, vRl>>
    /\ UNCHANGED notSd

\* Shutdown: s.watcher.Close() when there is a watcher.
SdCloseWatcher ==
    /\ cb # Panicked
    /\ sd = "metrics"
    /\ watching' = IF watching = "open" THEN "closed" ELSE watching
    /\ sd' = "watcher"
    /\ UNCHANGED <<done, cm, cb, lateWrites>>
    /\ UNCHANGED <<vSrv, vRl>>
    /\ UNCHANGED notSd

\* Shutdown: s.reloadTimer.Stop() stops a timer that has not fired.
SdStopTimer ==
    /\ cb # Panicked
    /\ sd = "watcher"
    /\ reloadTimer' = NoFile
    /\ sd' = "timer"
    /\ UNCHANGED <<done, cm, watching, cb, lateWrites>>
    /\ UNCHANGED <<zones, cfg, fs, events, stale, failed>>
    /\ UNCHANGED notSd

\* Shutdown: with a config manager, Stop closes the manager's watcher when
\* it has one and goes on to send on cm.done; with none, Shutdown returns.
SdStopManager ==
    /\ cb # Panicked
    /\ sd = "timer"
    /\ IF cm.mgr
       THEN /\ cm' = [cm EXCEPT !.watcher = IF @ = "open" THEN "closed" ELSE @]
            /\ sd' = "send"
       ELSE /\ sd' = "returned"
            /\ UNCHANGED cm
    /\ UNCHANGED <<done, watching, cb, lateWrites>>
    /\ UNCHANGED <<vSrv, vRl>>
    /\ UNCHANGED notSd

\* watchLoop, in its select, finds the Events channel of the closed watcher
\* closed and returns.
CmLoopSeesClosed ==
    /\ cb # Panicked
    /\ cm.loop = "select"
    /\ cm.watcher = "closed"
    /\ cm' = [cm EXCEPT !.loop = "exited"]
    /\ UNCHANGED <<done, sd, watching, cb, lateWrites>>
    /\ UNCHANGED <<vSrv, vRl>>
    /\ UNCHANGED notSd

\* cm.done has no buffer: the send of Stop completes when watchLoop, in its
\* select, takes the value; watchLoop returns, Stop and Shutdown return.
SdSendDone ==
    /\ cb # Panicked
    /\ sd = "send"
    /\ cm.loop = "select"
    /\ cm' = [cm EXCEPT !.loop = "exited"]
    /\ sd' = "returned"
    /\ UNCHANGED <<done, watching, cb, lateWrites>>
    /\ UNCHANGED <<vSrv, vRl>>
    /\ UNCHANGED notSd

\* ------------------------------------------------------ generic dataset

QueryTypeMX == 15
QueryTypeAAAA == 28

\* A line of a generic zone file: the name, the record type, the fields
\* after it.
GenLine(name, rtype, fields) == [name |-> name, rtype |-> rtype, fields |-> fields]

NameY == <<"y">>

GenFileLines ==
    { GenLine(NameX, "A", <<"127.0.0.2">>),
      GenLine(NameX, "TXT", <<"t">>),
      GenLine(NameX, "MX", <<"10", "mx">>),
      GenLine(NameX, "AAAA", <<"::1">>),
      GenLine(NameY, "A", <<"127.0.0.3">>),
      GenLine(NameY, "MX", <<"10">>),
      GenLine(<<"X">>, "TXT", <<"u">>) }

GenNames == {NameX, NameY, <<"X">>}
GenTypes == {QueryTypeA, QueryTypeTXT, QueryTypeMX, QueryTypeAAAA, QueryTypeANY}

\* What parseGenericFile makes of an entry line: an entry for A, TXT and
\* MX (the MX only with a preference and an exchange), nothing for any
\* other record type.  A TXT line of the model has one unquoted field.
GenParsed(l) ==
    IF l.rtype = "A"
    THEN [ok |-> TRUE, Type |-> QueryTypeA, Value |-> l.fields[1]]
    ELSE IF l.rtype = "TXT"
    THEN [ok |-> TRUE, Type |-> QueryTypeTXT, Value |-> l.fields[1]]
    ELSE IF l.rtype = "MX" /\ Len(l.fields) >= 2
    THEN [ok |-> TRUE, Type |-> QueryTypeMX, Value |-> l.fields[1] \o " " \o l.fields[2]]
    ELSE [ok |-> FALSE, Type |-> 0, Value |-> ""]

\* key := strings.ToLower(name) with the trailing dot
GenKey(name) == ToLower(WithDot(name))

\* ds.entries[key] = append(ds.entries[key], &GenericEntry{...})
GenAppend(entries, key, entry) ==
    [k \in DOMAIN entries \cup {key} |->
        IF k = key
        THEN (IF key \in DOMAIN entries THEN entries[key] ELSE <<>>) \o <<entry>>
        ELSE entries[k]]

\* The loop of GenericDataset.Query for one of its two variables: the
\* value of the last entry of the type that the query type selects.
RECURSIVE GenLast(_, _, _, _)
GenLast(es, i, type, qtype) ==
    IF i = 0 THEN ""
    ELSE IF (es[i].Type = qtype \/ qtype = QueryTypeANY) /\ es[i].Type = type
    THEN es[i].Value
    ELSE GenLast(es, i - 1, type, qtype)

\* GenericDataset.Query
GenericQuery(entries, name, qtype) ==
    LET key == WithDot(ToLower(name))
    IN  IF key \notin DOMAIN entries THEN NoResult
        ELSE LET aRecord == GenLast(entries[key], Len(entries[key]), QueryTypeA, qtype)
                 txtTemplate == GenLast(entries[key], Len(entries[key]), QueryTypeTXT, qtype)
             IN  IF aRecord = "" /\ txtTemplate = "" THEN NoResult
                 ELSE [found |-> TRUE, ARecord |-> aRecord, TXTTemplate |-> txtTemplate]

GenIdle ==
    /\ genPhase = "idle"
    /\ genEntries = <<>>
    /\ genLines = <<>>
    /\ genQ = NoQuery
    /\ genAns = <<>>

\* loadGeneric: ds := &GenericDataset{entries: make(map...)}
GenInit ==
    /\ genPhase = "load"
    /\ genEntries = <<>>
    /\ genLines = <<>>
    /\ genQ = NoQuery
    /\ genAns = <<>>

\* parseGenericFile, one entry line.
GenParseLine ==
    /\ genPhase = "load"
    /\ Len(genLines) < MaxLines
    /\ \E l \in GenFileLines :
        /\ genEntries' =
             IF GenParsed(l).ok
             THEN GenAppend(genEntries, GenKey(l.name),
                            [Type |-> GenParsed(l).Type, Value |-> GenParsed(l).Value])
             ELSE genEntries
        /\ genLines' = Append(genLines, l)
    /\ UNCHANGED <<genPhase, genQ, genAns>>
    /\ UNCHANGED notGen

\* loadGeneric returns the dataset.
GenLoaded ==
    /\ genPhase = "load"
    /\ genPhase' = "serve"
    /\ UNCHANGED <<genEntries, genLines, genQ, genAns>>
    /\ UNCHANGED notGen

\* queryZones asks the dataset of the zone for a name below the apex and
\* makes the answers of the result by the query type.
GenQuery ==
    /\ genPhase = "serve"
    /\ \E n \in GenNames, t \in GenTypes :
        LET result == GenericQuery(genEntries, n, t)
        IN  /\ genQ' = [asked |-> TRUE, name |-> n, qtype |-> t]
            /\ genAns' = IF result.found THEN ResultRecords(n, t, result) ELSE <<>>
    /\ UNCHANGED <<genPhase, genEntries, genLines>>
    /\ UNCHANGED notGen

\* --------------------------------------------------------------- ip4set

\* The lines an ip4set zone file of the model is made of: entry lines
\* `[!]<ip-or-cidr> [<value>]`, val being the value field cut at its first
\* "|" or EmptyValue when the line has none, and a default line.
SetFileLines ==
    { EntryLine(<<192, 0, 2, 50>>, 32, TRUE, EmptyValue),
      EntryLine(<<192, 0, 2, 0>>, 24, FALSE, PackValue("127.0.0.2", <<"s", "p", "a", "m">>)),
      EntryLine(<<192, 0, 2, 48>>, 28, FALSE, PackValue("127.0.0.3", <<>>)),
      EntryLine(<<192, 0, 0, 0>>, 8, FALSE, EmptyValue),
      EntryLine(<<192, 0, 2, 0>>, 24, TRUE, EmptyValue),
      DefaultLine(PackValue("127.0.0.9", <<"d">>)) }

SetAddrs == { <<192, 0, 2, 5>>, <<192, 0, 2, 50>>, <<192, 7, 7, 7>>, <<10, 0, 0, 1>> }

SetNames == { ReverseName(a) : a \in SetAddrs } \cup { <<5, 2, 0>> }

\* The loop of IP4SetDataset.Query from entry i on: an entry that contains
\* the address and is an exclusion is passed over, the first other one that
\* contains it gives the result; after the loop the default does, when
\* there is one.
RECURSIVE SetScan(_, _, _, _)
SetScan(entries, def, ip, i) ==
    IF i > Len(entries)
    THEN IF def # EmptyValue THEN SplitValue(def) ELSE NoResult
    ELSE IF Contains(entries[i].net, ip) /\ ~entries[i].Excluded
    THEN LET v1 == entries[i].Value
             v2 == IF v1 = EmptyValue THEN def ELSE v1
             v3 == IF v2 = EmptyValue THEN FallbackValue ELSE v2
         IN  SplitValue(v3)
    ELSE SetScan(entries, def, ip, i + 1)

\* IP4SetDataset.Query
SetQueryResult(entries, def, name) ==
    LET ip == parseReverseIP(name)
    IN  IF ip = NoIP THEN NoResult ELSE SetScan(entries, def, ip, 1)

SetIdle ==
    /\ setPhase = "idle"
    /\ setEntries = <<>>
    /\ setDef = EmptyValue
    /\ setLines = <<>>
    /\ setQ = NoName
    /\ setRes = NoResult

\* loadIP4Set: ds := &IP4SetDataset{entries: make([]*IP4SetEntry, 0)}
SetInit ==
    /\ setPhase = "load"
    /\ setEntries = <<>>
    /\ setDef = EmptyValue
    /\ setLines = <<>>
    /\ setQ = NoName
    /\ setRes = NoResult

\* parseIP4SetFileWithSilent, one `:A:TXT` line.
SetParseDefault ==
    /\ setPhase = "load"
    /\ Len(setLines) < MaxLines
    /\ \E l \in SetFileLines :
        /\ l.kind = "default"
        /\ setDef' = l.val
        /\ setLines' = Append(setLines, l)
    /\ UNCHANGED <<setPhase, setEntries, setQ, setRes>>
    /\ UNCHANGED notSet

\* parseIP4SetFileWithSilent, one entry line: a line without a value gets
\* 127.0.0.2, the entry is appended.
SetParseEntry ==
    /\ setPhase = "load"
    /\ Len(setLines) < MaxLines
    /\ \E l \in SetFileLines :
        /\ l.kind = "entry"
        /\ setEntries' =
             Append(setEntries,
                    [net |-> l.net, Excluded |-> l.excluded,
                     Value |-> IF l.val = EmptyValue THEN FallbackValue ELSE l.val])
        /\ setLines' = Append(setLines, l)
    /\ UNCHANGED <<setPhase, setDef, setQ, setRes>>
    /\ UNCHANGED notSet

\* loadIP4Set returns the dataset.
SetLoaded ==
    /\ setPhase = "load"
    /\ setPhase' = "serve"
    /\ UNCHANGED <<setEntries, setDef, setLines, setQ, setRes>>
    /\ UNCHANGED notSet

\* A call of Query on the loaded dataset.
SetQuery ==
    /\ setPhase = "serve"
    /\ \E n \in SetNames :
        /\ setQ' = n
        /\ setRes' = SetQueryResult(setEntries, setDef, n)
    /\ UNCHANGED <<setPhase, setEntries, setDef, setLines>>
    /\ UNCHANGED notSet

\* ------------------------------------------------ encodeName, parseName

\* The longest label encodeName accepts.
MaxLabelLen == 63

\* k bytes b.
Rep(b, k) == [i \in 1..k |-> b]

\* Labels names are made of: a, ab, a label that is one dot, a label with a
\* dot inside.
NameLabels == { <<97>>, <<97, 98>>, <<DotByte>>, <<97, DotByte, 98>> }

\* Names with a label of 63 bytes, and with one of 64.
LongNames ==
    { <<Rep(97, MaxLabelLen)>>, <<Rep(97, MaxLabelLen + 1)>>,
      <<<<97>>, Rep(97, MaxLabelLen)>>, <<<<97>>, Rep(97, MaxLabelLen + 1)>> }

\* The wire form of a name without compression: every label behind its
\* length, then the terminator.
RECURSIVE WireOf(_, _)
WireOf(labels, i) ==
    IF i > Len(labels) THEN <<0>>
    ELSE <<Len(labels[i])>> \o labels[i] \o WireOf(labels, i + 1)

\* splitName
splitName(name) ==
    IF name = <<>> \/ name = <<DotByte>> THEN <<>>
    ELSE SplitDots(IF name[Len(name)] = DotByte THEN SubSeq(name, 1, Len(name) - 1)
                   ELSE name, <<>>)

\* The loop of encodeName over the labels.
RECURSIVE EncodeLabels(_, _, _)
EncodeLabels(labels, i, buf) ==
    IF i > Len(labels) THEN [err |-> FALSE, bytes |-> Append(buf, 0)]
    ELSE IF Len(labels[i]) > MaxLabelLen THEN [err |-> TRUE, bytes |-> <<>>]
    ELSE EncodeLabels(labels, i + 1, buf \o <<Len(labels[i])>> \o labels[i])

\* encodeName
encodeName(name) ==
    IF name = <<>> \/ name = <<DotByte>> THEN [err |-> FALSE, bytes |-> <<0>>]
    ELSE EncodeLabels(splitName(name), 1, <<>>)

NoCoding == [op |-> "none"]

NmIdle ==
    /\ nmLabels = <<>>
    /\ nmOut = [op |-> "idle"]

\* A name of up to MaxLabels labels is given.
NmInit ==
    /\ nmLabels \in LongNames \cup UNION { [1..n -> NameLabels] : n \in 0..MaxLabels }
    /\ nmOut = NoCoding

\* The wire form of the name is parsed by parseName and the name it
\* returns is encoded by encodeName.
NmRoundTrip ==
    /\ nmOut = NoCoding
    /\ LET parsed == parseName(WireOf(nmLabels, 1), 0, <<>>, {0})
       IN  nmOut' = [op |-> "roundtrip", parsed |-> parsed.kind = "ok",
                     name |-> parsed.name,
                     encoded |-> IF parsed.kind = "ok" THEN encodeName(parsed.name)
                                 ELSE [err |-> TRUE, bytes |-> <<>>]]
    /\ UNCHANGED nmLabels
    /\ UNCHANGED notNm

\* The name written with dots between its labels is encoded by encodeName.
NmEncode ==
    /\ nmOut = NoCoding
    /\ nmOut' = [op |-> "encode", parsed |-> FALSE, name |-> NameOf(nmLabels),
                 encoded |-> encodeName(NameOf(nmLabels))]
    /\ UNCHANGED nmLabels
    /\ UNCHANGED notNm

\* ----------------------------------------------------- combined dataset

\* The names asked of a combined dataset.
CombNames == {NameX, NameXA, NameY}

\* A plausible slip: the loop does not stop at the first result, the last
\* child with a result answers.
RECURSIVE CombinedQueryLast(_, _, _, _, _)
CombinedQueryLast(datasets, name, i, asked, best) ==
    IF i > Len(datasets) THEN [result |-> best, asked |-> asked]
    ELSE LET result == DatasetQuery(datasets[i], name)
         IN  CombinedQueryLast(datasets, name, i + 1, Append(asked, i),
                               IF result.found THEN result ELSE best)

\* CombinedDataset.Query from child i on: the result, and the children
\* whose Query was called.  best is the result when no child from i on has
\* one.
RECURSIVE CombinedQuery(_, _, _, _, _)
CombinedQuery(datasets, name, i, asked, best) ==
    IF i > Len(datasets) THEN [result |-> best, asked |-> asked]
    ELSE LET result == DatasetQuery(datasets[i], name)
         IN  IF result.found THEN [result |-> result, asked |-> Append(asked, i)]
             ELSE CombinedQuery(datasets, name, i + 1, Append(asked, i), best)

CombIdle ==
    /\ combPhase = "idle"
    /\ combFiles = <<>>
    /\ combDatasets = <<>>
    /\ combQ = NoName
    /\ combRes = NoResult
    /\ combAsked = <<>>

\* loadCombined is called with the file list of a zone; each file holds
\* one of the contents, or cannot be read.
CombInit ==
    /\ combPhase = "load"
    /\ combFiles \in UNION { [1..n -> Contents] : n \in 0..MaxFiles }
    /\ combDatasets = <<>>
    /\ combQ = NoName
    /\ combRes = NoResult
    /\ combAsked = <<>>

\* One turn of the loop of loadCombined: the dataset of the next file is
\* loaded and appended.
CombLoadChild ==
    /\ combPhase = "load"
    /\ Len(combDatasets) < Len(combFiles)
    /\ combFiles[Len(combDatasets) + 1] # Unreadable
    /\ combDatasets' = Append(combDatasets,
                              [contents |-> <<combFiles[Len(combDatasets) + 1]>>,
                               complete |-> TRUE])
    /\ UNCHANGED <<combPhase, combFiles, combQ, combRes, combAsked>>
    /\ UNCHANGED notComb

\* The next file cannot be loaded: loadCombined returns the error.
CombLoadFails ==
    /\ combPhase = "load"
    /\ Len(combDatasets) < Len(combFiles)
    /\ combFiles[Len(combDatasets) + 1] = Unreadable
    /\ combPhase' = "failed"
    /\ UNCHANGED <<combFiles, combDatasets, combQ, combRes, combAsked>>
    /\ UNCHANGED notComb

\* loadCombined returns the dataset.
CombLoaded ==
    /\ combPhase = "load"
    /\ Len(combDatasets) = Len(combFiles)
    /\ combPhase' = "serve"
    /\ UNCHANGED <<combFiles, combDatasets, combQ, combRes, combAsked>>
    /\ UNCHANGED notComb

\* A call of Query on the loaded dataset.
CombQuery ==
    /\ combPhase = "serve"
    /\ \E n \in CombNames :
        LET r == CombinedQuery(combDatasets, n, 1, <<>>, NoResult)
        IN  /\ combQ' = n
            /\ combRes' = r.result
            /\ combAsked' = r.asked
    /\ UNCHANGED <<combPhase, combFiles, combDatasets>>
    /\ UNCHANGED notComb

\* ------------------------------------- the operations on the registry

\* A zone of a type dataset.Load does not know.
ZcBad == [ZoneConfig(NameX, <<"fA">>, NoFile, <<>>, <<>>, <<>>, NoSOA) EXCEPT !.Type = "bogus"]

\* The configs the operations run on: none, one or two zones, with and
\* without a zone of an unknown type.
OpConfigs ==
    { <<>>, <<ZcA>>, <<ZcA, ZcB>>, <<ZcA2, ZcB>>, <<ZcBad>>, <<ZcA, ZcBad>>, <<ZcB>> }

NoOp == [op |-> "none"]

\* The error of loadZones: no zone in the new map, zones in the config, and
\* a config file path in use.
loadZonesFails(newZones, config, path) ==
    DOMAIN newZones = {} /\ Len(config) > 0 /\ path

OpIdle ==
    /\ opPath = FALSE
    /\ opUp = "idle"
    /\ opLast = NoOp
    /\ opWrites = 0
    /\ opMgr = FALSE

\* server.New is called with a config, with or without a config file path.
OpInit ==
    /\ cfg \in OpConfigs
    /\ fs \in [Files -> Contents]
    /\ zones = <<>>
    /\ RqIdle
    /\ RlIdle
    /\ CoIdle
    /\ opPath \in BOOLEAN
    /\ opUp = "new"
    /\ opLast = NoOp
    /\ opWrites = 0
    /\ opMgr = FALSE

\* server.New: loadZones(cfg); New fails when loadZones does. With a config
\* file path it makes the config manager, and goes on without one when
\* NewConfigManager fails.
OpNew ==
    /\ opUp = "new"
    /\ zones' = LoadedZones(cfg, fs)
    /\ LET err == loadZonesFails(zones', cfg, opPath)
       IN  /\ opUp' = IF err THEN "failed" ELSE "up"
           /\ opLast' = [op |-> "loadZones", err |-> err, before |-> zones, files |-> fs]
           /\ opMgr' \in IF opPath /\ ~err THEN BOOLEAN ELSE {FALSE}
    /\ UNCHANGED <<cfg, fs, opPath, opWrites>>
    /\ UNCHANGED notOp

\* Something outside the server rewrites a file.
OpFileWrite ==
    /\ opUp = "up"
    /\ opWrites < MaxWrites
    /\ opWrites' = opWrites + 1
    /\ \E f \in Files, c \in Contents :
        /\ c # fs[f]
        /\ fs' = [fs EXCEPT ![f] = c]
    /\ UNCHANGED <<zones, cfg, opPath, opUp, opLast, opMgr>>
    /\ UNCHANGED notOp

\* s.configMgr.Get(): cm.mu.RLock() on the manager, a nil pointer
\* dereference when srv.configMgr was never set.
ManagerGet(mgr) == IF mgr THEN "cfg" ELSE Panicked

\* Reload(): loadZones on the config of the manager. The panic is in the
\* goroutine of the signal handler and ends the process.
OpReload ==
    /\ opUp = "up"
    /\ IF ManagerGet(opMgr) = Panicked
       THEN /\ opUp' = "crashed"
            /\ opLast' = [op |-> "panic", in |-> "Reload", before |-> zones]
            /\ UNCHANGED zones
       ELSE /\ zones' = Reload(zones, cfg, fs)
            /\ opLast' = [op |-> "loadZones", err |-> loadZonesFails(zones', cfg, opPath),
                          before |-> zones, files |-> fs]
            /\ UNCHANGED opUp
    /\ UNCHANGED <<cfg, fs, opPath, opWrites, opMgr>>
    /\ UNCHANGED notOp

\* ReloadFile(changedFile) on the config of the manager.
OpReloadFile ==
    /\ opUp = "up"
    /\ \E f \in Files :
        IF ManagerGet(opMgr) = Panicked
        THEN /\ opUp' = "crashed"
             /\ opLast' = [op |-> "panic", in |-> "ReloadFile", before |-> zones]
             /\ UNCHANGED zones
        ELSE /\ zones' = ReloadFile(zones, cfg, fs, f)
             /\ opLast' = [op |-> "ReloadFile", file |-> f, before |-> zones, files |-> fs]
             /\ UNCHANGED opUp
    /\ UNCHANGED <<cfg, fs, opPath, opWrites, opMgr>>
    /\ UNCHANGED notOp

\* reloadConfig: the manager takes the new config, detectChanges, and
\* handleConfigReload(newCfg, changes).
OpConfigReload ==
    /\ opUp = "up"
    /\ opMgr
    /\ \E newCfg \in OpConfigs :
        /\ newCfg # cfg
        /\ LET changes == detectChanges(cfg, newCfg)
           IN  /\ zones' = handleConfigReload(zones, newCfg, changes, fs)
               /\ opLast' = [op |-> "handleConfigReload", changes |-> changes,
                             before |-> zones, files |-> fs]
        /\ cfg' = newCfg
    /\ UNCHANGED <<fs, opPath, opUp, opWrites, opMgr>>
    /\ UNCHANGED notOp

\* -------------------------------------------------------------- ip6trie

\* An IPv6 address is its 32 nibbles, the first first.
IP6Nibbles == 32

\* The addresses of the model: two nibbles that vary, the others 0.
Addr6(a, b) == [i \in 1..IP6Nibbles |-> IF i = 1 THEN a ELSE IF i = 2 THEN b ELSE 0]

NoIP6 == <<>>

\* parseReverseIP6 on a name given as its labels, one hex digit each, each
\* taken for its value: nil for fewer than 32 labels or a label that is no
\* hex digit, else the address the reversed digits spell.
parseReverseIP6(name) ==
    IF Len(name) < IP6Nibbles THEN NoIP6
    ELSE IF \E i \in 1..IP6Nibbles : ~(name[i] \in 0..15) THEN NoIP6
    ELSE [i \in 1..IP6Nibbles |-> name[IP6Nibbles + 1 - i]]

\* The i-th bit of a nibble, bit 3 the highest.
NibbleBit(nibble, i) == (nibble \div Pow2(i)) % 2

\* The key insertTrie makes of a nibble: the text of its four bits, the
\* characters "0" (48) and "1" (49).
InsertKey(nibble) == [j \in 1..4 |-> 48 + NibbleBit(nibble, 4 - j)]

\* The key findNode makes of a nibble: one byte, bit 3 shifted left three
\* times with the bits 2, 1 and 0 or-ed in behind it.
QueryKey(nibble) ==
    LET k0 == NibbleBit(nibble, 3)
        k1 == (k0 * 2 + NibbleBit(nibble, 2)) % 256
        k2 == (k1 * 2 + NibbleBit(nibble, 1)) % 256
        k3 == (k2 * 2 + NibbleBit(nibble, 0)) % 256
    IN  <<k3>>

\* &IP6TrieNode{}
NewNode6 == [Value |-> "", Excluded |-> FALSE]

\* The number of nibbles insertTrie walks for a prefix length: one for
\* every i = 0, 4, 8, ... below ones.
NibblesOf(ones) == (ones + 3) \div 4

\* The keys insertTrie walks for the first n nibbles of ip.
Path6(ip, n) == [k \in 1..n |-> InsertKey(ip[k])]

\* IP6TrieDataset.insertTrie
insertTrie6(nodes, ip, ones, value, excluded) ==
    LET made == { Path6(ip, k) : k \in 0..NibblesOf(ones) }
        grown == [p \in (DOMAIN nodes) \cup made |->
                     IF p \in DOMAIN nodes THEN nodes[p] ELSE NewNode6]
    IN  [grown EXCEPT ![Path6(ip, NibblesOf(ones))] =
            [Value |-> value, Excluded |-> excluded]]

\* node.Children[keyStr], NilNode when there is no such child.
Child6(nodes, node, key) ==
    IF Append(node, key) \in DOMAIN nodes THEN Append(node, key) ELSE NilNode

\* The loops of findNode over the nibbles of the address, nibble i next
\* (counted from 0), and its last test after them.
RECURSIVE findWalk6(_, _, _, _, _)
findWalk6(nodes, ip, i, node, best) ==
    IF i = IP6Nibbles
    THEN IF node # NilNode /\ nodes[node].Value # "" THEN node ELSE best
    ELSE IF node = NilNode THEN best
    ELSE findWalk6(nodes, ip, i + 1, Child6(nodes, node, QueryKey(ip[i + 1])),
                   IF nodes[node].Value # "" THEN node ELSE best)

\* IP6TrieDataset.findNode
findNode6(nodes, ip) == findWalk6(nodes, ip, 0, RootPath, NilNode)

NoMatch6 == [found |-> FALSE, value |-> ""]

\* IP6TrieDataset.Query
Query6(nodes, defVal, name) ==
    LET ip == parseReverseIP6(name)
        node == findNode6(nodes, ip)
    IN  IF ip = NoIP6 THEN NoMatch6
        ELSE IF node = NilNode \/ nodes[node].Excluded THEN NoMatch6
        ELSE LET value == IF nodes[node].Value = "" THEN defVal ELSE nodes[node].Value
             IN  IF value = "" THEN NoMatch6 ELSE [found |-> TRUE, value |-> value]

\* The lines of an ip6trie file: a default, and entries of prefix length 0,
\* 4 and 8, with a value, without one, or excluded.
T6Nets ==
    { [IP |-> Addr6(0, 0), ones |-> 0] }
        \cup { [IP |-> Addr6(a, 0), ones |-> 4] : a \in {2, 3} }
        \cup { [IP |-> Addr6(a, 1), ones |-> 8] : a \in {2, 3} }

T6FileLines ==
    { [kind |-> "default", val |-> "v9"] }
        \cup { [kind |-> "entry", net |-> n, val |-> v, excluded |-> FALSE] :
                 n \in T6Nets, v \in {"", "v1"} }
        \cup { [kind |-> "entry", net |-> n, val |-> "", excluded |-> TRUE] : n \in T6Nets }

\* The reversed name of an address, and the names asked.
ReverseName6(ip) == [i \in 1..IP6Nibbles |-> ip[IP6Nibbles + 1 - i]]

T6Names ==
    { ReverseName6(Addr6(2, 0)), ReverseName6(Addr6(2, 1)), ReverseName6(Addr6(3, 1)),
      ReverseName6(Addr6(5, 0)), SubSeq(ReverseName6(Addr6(2, 1)), 2, IP6Nibbles) }

T6Idle ==
    /\ t6Phase = "idle"
    /\ t6Nodes = <<>>
    /\ t6DefVal = ""
    /\ t6Lines = <<>>
    /\ t6Q = NoName
    /\ t6Res = NoMatch6

\* loadIP6Trie: ds := &IP6TrieDataset{root: &IP6TrieNode{...}}
T6Init ==
    /\ t6Phase = "load"
    /\ t6Nodes = [p \in {RootPath} |-> NewNode6]
    /\ t6DefVal = ""
    /\ t6Lines = <<>>
    /\ t6Q = NoName
    /\ t6Res = NoMatch6

\* parseIP6TrieFile, one `:value` line.
T6ParseDefault ==
    /\ t6Phase = "load"
    /\ Len(t6Lines) < MaxLines
    /\ \E l \in T6FileLines :
        /\ l.kind = "default"
        /\ t6DefVal' = l.val
        /\ t6Lines' = Append(t6Lines, l)
    /\ UNCHANGED <<t6Phase, t6Nodes, t6Q, t6Res>>
    /\ UNCHANGED notT6

\* parseIP6TrieFile, one entry line.
T6ParseEntry ==
    /\ t6Phase = "load"
    /\ Len(t6Lines) < MaxLines
    /\ \E l \in T6FileLines :
        /\ l.kind = "entry"
        /\ t6Nodes' = insertTrie6(t6Nodes, l.net.IP, l.net.ones, l.val, l.excluded)
        /\ t6Lines' = Append(t6Lines, l)
    /\ UNCHANGED <<t6Phase, t6DefVal, t6Q, t6Res>>
    /\ UNCHANGED notT6

\* loadIP6Trie returns the dataset.
T6Loaded ==
    /\ t6Phase = "load"
    /\ t6Phase' = "serve"
    /\ UNCHANGED <<t6Nodes, t6DefVal, t6Lines, t6Q, t6Res>>
    /\ UNCHANGED notT6

\* A call of Query on the loaded dataset.
T6Query ==
    /\ t6Phase = "serve"
    /\ \E n \in T6Names :
        /\ t6Q' = n
        /\ t6Res' = Query6(t6Nodes, t6DefVal, n)
    /\ UNCHANGED <<t6Phase, t6Nodes, t6DefVal, t6Lines>>
    /\ UNCHANGED notT6

\* --------------------------------------------- TXT template substitution

\* strings.ReplaceAll(str, old, new) for a non-empty old, from position i on.
RECURSIVE ReplaceAllFrom(_, _, _, _)
ReplaceAllFrom(str, i, old, new) ==
    IF i > Len(str) THEN <<>>
    ELSE IF i + Len(old) - 1 <= Len(str) /\ SubSeq(str, i, i + Len(old) - 1) = old
    THEN new \o ReplaceAllFrom(str, i + Len(old), old, new)
    ELSE <<str[i]>> \o ReplaceAllFrom(str, i + 1, old, new)

ReplaceAll(str, old, new) == ReplaceAllFrom(str, 1, old, new)

\* fmt.Sprintf("%d", n) for n >= 0.
DigitChar(d) ==
    CASE d = 0 -> "0" [] d = 1 -> "1" [] d = 2 -> "2" [] d = 3 -> "3" [] d = 4 -> "4"
      [] d = 5 -> "5" [] d = 6 -> "6" [] d = 7 -> "7" [] d = 8 -> "8" [] d = 9 -> "9"

RECURSIVE Decimal(_)
Decimal(n) == IF n < 10 THEN <<DigitChar(n)>> ELSE Decimal(n \div 10) \o <<DigitChar(n % 10)>>

\* net.IP.String() of an IPv4 address.
IPString(ip) ==
    Decimal(ip[1]) \o Dot \o Decimal(ip[2]) \o Dot \o Decimal(ip[3]) \o Dot \o Decimal(ip[4])

\* The variables of a TXT template.
VarTIMESTAMP == <<"$", "T", "I", "M", "E", "S", "T", "A", "M", "P">>
VarMAXRANGE4 == <<"$", "M", "A", "X", "R", "A", "N", "G", "E", "4">>
VarMAXRANGE6 == <<"$", "M", "A", "X", "R", "A", "N", "G", "E", "6">>

\* substituteTXTWithMetadata
substituteTXTWithMetadata(template, subst, timestamp, maxRange, isIPv6) ==
    IF template = <<>> THEN template
    ELSE LET r1 == IF timestamp > 0
                   THEN ReplaceAll(template, VarTIMESTAMP, Decimal(timestamp)) ELSE template
             r2 == IF maxRange > 0
                   THEN ReplaceAll(r1, IF isIPv6 THEN VarMAXRANGE6 ELSE VarMAXRANGE4,
                                   Decimal(maxRange))
                   ELSE r1
         IN  ReplaceAll(r2, <<"$">>, subst)

\* ds.maxRange after the entry lines of an ip4trie file with the given
\* prefix lengths: `if ones < ds.maxRange || ds.maxRange == 0`.
RECURSIVE MaxRangeAfter(_, _, _)
MaxRangeAfter(ones, i, maxRange) ==
    IF i > Len(ones) THEN maxRange
    ELSE MaxRangeAfter(ones, i + 1,
                       IF ones[i] < maxRange \/ maxRange = 0 THEN ones[i] ELSE maxRange)

\* The pieces TXT templates are made of, and the templates.
TxPieces == { <<"$">>, VarTIMESTAMP, VarMAXRANGE4, VarMAXRANGE6, <<"x">>, <<"=">> }

RECURSIVE Concat(_, _)
Concat(seqs, i) == IF i > Len(seqs) THEN <<>> ELSE seqs[i] \o Concat(seqs, i + 1)

TxTemplates == { Concat(ps, 1) : ps \in UNION { [1..n -> TxPieces] : n \in 0..MaxPieces } }

\* File modification times, as os.Stat gives them or 0 when it fails; the
\* prefix lengths of the entries of an ip4trie file.
TxMtimes == {0, 17}
TxOnes == UNION { [1..n -> {0, 8, 24}] : n \in 1..2 }
TxIP == <<192, 0, 2, 5>>

NoOut == <<"none">>

TxIdle ==
    /\ txDs = [kind |-> "none"]
    /\ txTemplate = <<>>
    /\ txOut = NoOut

\* A loaded dataset and the TXT template of the entry that matches the
\* query: an ip4tset, whose loader sets the timestamp and never maxRange, or
\* an ip4trie, whose loader sets both.
TxInit ==
    /\ \E m \in TxMtimes :
        \/ txDs = [kind |-> "ip4tset", timestamp |-> m, maxRange |-> 0, ones |-> <<32>>]
        \/ \E o \in TxOnes :
            txDs = [kind |-> "ip4trie", timestamp |-> m,
                    maxRange |-> MaxRangeAfter(o, 1, 0), ones |-> o]
    /\ txTemplate \in TxTemplates
    /\ txOut = NoOut

\* IP4TSetDataset.Query on the matching entry.
TxQueryTSet ==
    /\ txDs.kind = "ip4tset"
    /\ txOut = NoOut
    /\ txOut' = substituteTXTWithMetadata(txTemplate, IPString(TxIP), txDs.timestamp,
                                          txDs.maxRange, FALSE)
    /\ UNCHANGED <<txDs, txTemplate>>
    /\ UNCHANGED notTx

\* IP4TrieDataset.Query on the matching entry.
TxQueryTrie ==
    /\ txDs.kind = "ip4trie"
    /\ txOut = NoOut
    /\ txOut' = substituteTXTWithMetadata(txTemplate, IPString(TxIP), txDs.timestamp,
                                          txDs.maxRange, FALSE)
    /\ UNCHANGED <<txDs, txTemplate>>
    /\ UNCHANGED notTx

\* ------------------------------------------- the return value of an entry

\* strings.SplitN(str, sep, 2) for a separator of one character: the text
\* before the first separator and the text after it, or the text alone.
SplitN2(str, sep) ==
    LET at == { i \in 1..Len(str) : str[i] = sep }
    IN  IF at = {} THEN <<str>>
        ELSE LET d == CHOOSE i \in at : \A j \in at : i <= j
             IN  <<SubSeq(str, 1, d - 1), SubSeq(str, d + 1, Len(str))>>

Text127 == <<"1", "2", "7", ".", "0", ".", "0", ".">>

\* parseATxt on a text without blanks: `:A:TXT` gives A and TXT, with
\* 127.0.0. put before an A of up to three characters and no dot, and
\* 127.0.0.2 for an empty A; a text that does not start with a colon is
\* taken for the TXT, with 127.0.0.2.
parseATxt(s) ==
    IF s = <<>> THEN [a |-> Text127 \o <<"2">>, txt |-> <<>>]
    ELSE IF Head(s) = ":"
    THEN LET parts == SplitN2(Tail(s), ":")
             a == parts[1]
             txt == IF Len(parts) > 1 THEN parts[2] ELSE <<>>
         IN  [a |-> IF a # <<>>
                    THEN IF Len(a) <= 3 /\ \A i \in 1..Len(a) : a[i] # "."
                         THEN Text127 \o a ELSE a
                    ELSE Text127 \o <<"2">>,
              txt |-> txt]
    ELSE [a |-> Text127 \o <<"2">>, txt |-> s]

\* aRecord + "|" + txtTemplate
JoinValue(v) == v.a \o <<"|">> \o v.txt

\* The value the parser of a dataset type stores for an entry line whose
\* text after the key is given (none: the empty text): parseATxt joined
\* for ip4trie and dnset, the text as it is for ip4set, the default of the
\* dataset or 127.0.0.2| when there is none.
StoredValue(kind, text, defVal) ==
    LET given == IF kind = "ip4set" THEN text
                 ELSE IF text # <<>> THEN JoinValue(parseATxt(text)) ELSE defVal
    IN  IF given = <<>> THEN Text127 \o <<"2", "|">> ELSE given

\* The ARecord of the query result of a matching entry: the stored value,
\* for ip4set the default when it is empty, up to the first `|`.
ARecordOf(kind, value, def) ==
    LET v1 == IF kind = "ip4set" /\ value = <<>> THEN def ELSE value
        v2 == IF v1 = <<>> THEN Text127 \o <<"2", "|">> ELSE v1
    IN  SplitN2(v2, "|")[1]

\* net.ParseIP on the texts of the model: four runs of digits with dots
\* between them.
IsDigit(c) == c \in {"0", "1", "2", "3", "4", "5", "6", "7", "8", "9"}

RECURSIVE SplitAll(_, _)
SplitAll(str, sep) ==
    LET p == SplitN2(str, sep)
    IN  IF Len(p) = 1 THEN p ELSE <<p[1]>> \o SplitAll(p[2], sep)

ParsesAsIP(text) ==
    LET parts == SplitAll(text, ".")
    IN  /\ Len(parts) = 4
        /\ \A i \in 1..4 : parts[i] # <<>> /\ \A j \in 1..Len(parts[i]) : IsDigit(parts[i][j])

\* The value texts of the model: a bare address, the colon forms with a
\* full address, with the short form, with and without TXT, a bare TXT.
VlHeads == { <<>>, <<":">> }
VlAs == { <<>>, <<"3">>, Text127 \o <<"3">>, <<"t">> }
VlTails == { <<>>, <<":">>, <<":", "t">> }
VlTexts == { h \o a \o t : h \in VlHeads, a \in VlAs, t \in VlTails }
VlKinds == {"ip4trie", "ip4set", "dnset"}
VlDefaults == { <<>>, Text127 \o <<"9", "|", "d">> }

NoAnswer == <<"none">>

VlIdle ==
    /\ vlKind = "none"
    /\ vlText = <<>>
    /\ vlDef = <<>>
    /\ vlStored = NoAnswer
    /\ vlA = NoAnswer

\* A dataset of one of the three types, with or without a default, reads
\* an entry line with a value text.
VlInit ==
    /\ vlKind \in VlKinds
    /\ vlText \in VlTexts
    /\ vlDef \in VlDefaults
    /\ vlStored = NoAnswer
    /\ vlA = NoAnswer

\* The parser stores the entry.
VlParse ==
    /\ vlStored = NoAnswer
    /\ vlStored' = StoredValue(vlKind, vlText, vlDef)
    /\ UNCHANGED <<vlKind, vlText, vlDef, vlA>>
    /\ UNCHANGED notVl

\* An A query matches the entry: Query gives the ARecord, queryZones makes
\* an A record of it when net.ParseIP takes it.
VlQueryA ==
    /\ vlStored # NoAnswer
    /\ vlA = NoAnswer
    /\ LET a == ARecordOf(vlKind, vlStored, vlDef)
       IN  vlA' = IF a # <<>> /\ ParsesAsIP(a) THEN a ELSE <<>>
    /\ UNCHANGED <<vlKind, vlText, vlDef, vlStored>>
    /\ UNCHANGED notVl

\* ------------------------------------------------- the debounce timer

\* srv.reloadDebounce of a server whose config sets none, in seconds.
reloadDebounce == 2

\* A nil *time.Timer.
NoTimer == [file |-> NoFile, due |-> 0, ev |-> 0]

\* A plausible slip: the pending timer is left running.
StopTimerNot(armed, timer) == armed

\* s.reloadTimer.Stop(): a timer that has not fired is taken from the
\* armed timers, for one that has fired nothing happens.
StopTimer(armed, timer) == armed \ {timer}

DbIdle ==
    /\ dbNow = 0
    /\ dbEvts = <<>>
    /\ dbTimer = NoTimer
    /\ dbArmed = {}
    /\ dbCbs = {}
    /\ dbRuns = <<>>

\* watchFiles takes a file event and calls scheduleReload: under reloadMu
\* the timer it holds is stopped and a new one is armed for the file.
DbEvent ==
    /\ Len(dbEvts) < MaxEvents
    /\ \E f \in {"fA", "fB"} :
        LET new == [file |-> f, due |-> dbNow + reloadDebounce, ev |-> Len(dbEvts) + 1]
        IN  /\ dbEvts' = Append(dbEvts, [file |-> f, at |-> dbNow,
                                         pending |-> dbTimer \in dbArmed])
            /\ dbArmed' = StopTimer(dbArmed, dbTimer) \cup {new}
            /\ dbTimer' = new
    /\ UNCHANGED <<dbNow, dbCbs, dbRuns>>
    /\ UNCHANGED notDb

\* A second passes.
DbTick ==
    /\ dbNow < MaxTime
    /\ dbNow' = dbNow + 1
    /\ UNCHANGED <<dbEvts, dbTimer, dbArmed, dbCbs, dbRuns>>
    /\ UNCHANGED notDb

\* An armed timer whose time has come fires: its function is started in a
\* goroutine of its own.
DbFire ==
    /\ \E t \in dbArmed :
        /\ dbNow >= t.due
        /\ dbArmed' = dbArmed \ {t}
        /\ dbCbs' = dbCbs \cup {t}
    /\ UNCHANGED <<dbNow, dbEvts, dbTimer, dbRuns>>
    /\ UNCHANGED notDb

\* The function of a fired timer calls ReloadFile(changedFile).
DbCallback ==
    /\ \E t \in dbCbs :
        /\ dbRuns' = Append(dbRuns, [file |-> t.file, at |-> dbNow, ev |-> t.ev])
        /\ dbCbs' = dbCbs \ {t}
    /\ UNCHANGED <<dbNow, dbEvts, dbTimer, dbArmed>>
    /\ UNCHANGED notDb

\* ------------------------------------------- the rebuilds side by side

\* The goroutines that rebuild a zone: the function of a file timer, the
\* function of the config timer, a call of Reload.
RbThreads == 1..MaxCallbacks

\* No file read, and no zone under the name.
NoVer == 0 - 1

RbKinds == {"file", "added", "updated", "removed", "all"}

\* A goroutine that has not started.
RbNotStarted == [pc |-> "idle", kind |-> "file", seq |-> 0, has |-> FALSE,
                 read |-> NoVer, underLock |-> FALSE]

\* A plausible slip: the lock is taken before the files are read.
LockPointEarly(kind) == "load"

\* The place of s.zonesMu.Lock() in ReloadFile, handleConfigReload and
\* loadZones: after the zone is built, around the statement that stores it.
LockPoint(kind) == "built"

RbIdle ==
    /\ rbFile = 0
    /\ rbEvt = FALSE
    /\ rbCfgHas = TRUE
    /\ rbSeq = 0
    /\ rbThr = [t \in RbThreads |-> RbNotStarted]
    /\ rbLock = 0
    /\ rbZone = [ver |-> 0, by |-> 0]
    /\ rbStores = <<>>
    /\ rbLastRead = 0
    /\ rbSeen = [ver |-> 0, loading |-> FALSE]

\* A zone file gets new content, the watcher gets the event.
RbWrite ==
    /\ rbFile < MaxVersion
    /\ rbFile' = rbFile + 1
    /\ rbEvt' = TRUE
    /\ UNCHANGED <<rbCfgHas, rbSeq, rbThr, rbLock, rbZone, rbStores, rbLastRead, rbSeen>>
    /\ UNCHANGED notRb

\* The place a rebuild of the kind starts at: ReloadFile returns at once
\* when the config has no zone for the file, a removed zone has nothing
\* to be built.
RbFirstPc(kind, has) ==
    IF kind = "file" /\ ~has THEN "done"
    ELSE IF kind = "removed" THEN "built"
    ELSE "load"

\* A rebuild starts in a goroutine of its own: the function of the file
\* timer calls ReloadFile, that of the config timer reloadConfig, which
\* sets cm.cfg and calls handleConfigReload, a signal calls Reload.
RbStart ==
    \E t \in RbThreads :
    /\ rbThr[t].pc = "idle"
    /\ \E kind \in RbKinds :
        /\ kind = "file" => rbEvt
        /\ kind = "added" => ~rbCfgHas
        /\ kind \in {"updated", "removed"} => rbCfgHas
        /\ rbEvt' = IF kind = "file" THEN FALSE ELSE rbEvt
        /\ rbCfgHas' = CASE kind = "added" -> TRUE
                         [] kind = "removed" -> FALSE
                         [] OTHER -> rbCfgHas
        /\ rbSeq' = rbSeq + 1
        /\ rbThr' = [rbThr EXCEPT ![t] =
               [pc |-> RbFirstPc(kind, rbCfgHas), kind |-> kind, seq |-> rbSeq + 1,
                has |-> IF kind = "removed" THEN FALSE
                        ELSE IF kind = "added" THEN TRUE ELSE rbCfgHas,
                read |-> NoVer, underLock |-> FALSE]]
    /\ UNCHANGED <<rbFile, rbLock, rbZone, rbStores, rbLastRead, rbSeen>>
    /\ UNCHANGED notRb

\* dataset.Load reads the files of the zone as they are now. loadZones
\* with a config without zones has nothing to read.
RbLoad ==
    \E t \in RbThreads :
    /\ rbThr[t].pc = "load"
    /\ rbThr' = [rbThr EXCEPT ![t].pc = "built",
                              ![t].read = IF rbThr[t].has THEN rbFile ELSE NoVer,
                              ![t].underLock = (rbLock = t)]
    /\ rbLastRead' = IF rbThr[t].has THEN rbFile ELSE rbLastRead
    /\ UNCHANGED <<rbFile, rbEvt, rbCfgHas, rbSeq, rbLock, rbZone, rbStores, rbSeen>>
    /\ UNCHANGED notRb

\* s.zonesMu.Lock()
RbLock ==
    \E t \in RbThreads :
    /\ rbThr[t].pc = LockPoint(rbThr[t].kind)
    /\ rbLock = 0
    /\ rbLock' = t
    /\ UNCHANGED <<rbFile, rbEvt, rbCfgHas, rbSeq, rbThr, rbZone, rbStores, rbLastRead, rbSeen>>
    /\ UNCHANGED notRb

\* s.zones[zc.Name] = newZone, delete(s.zones, zoneName), s.zones = newZones
RbStore ==
    \E t \in RbThreads :
    /\ rbThr[t].pc = "built"
    /\ rbLock = t
    /\ rbZone' = [ver |-> rbThr[t].read, by |-> rbThr[t].seq]
    /\ rbStores' = Append(rbStores, rbThr[t].seq)
    /\ rbThr' = [rbThr EXCEPT ![t].pc = "stored"]
    /\ UNCHANGED <<rbFile, rbEvt, rbCfgHas, rbSeq, rbLock, rbLastRead, rbSeen>>
    /\ UNCHANGED notRb

\* s.zonesMu.Unlock()
RbUnlock ==
    \E t \in RbThreads :
    /\ rbThr[t].pc = "stored"
    /\ rbLock = t
    /\ rbLock' = 0
    /\ rbThr' = [rbThr EXCEPT ![t].pc = "done"]
    /\ UNCHANGED <<rbFile, rbEvt, rbCfgHas, rbSeq, rbZone, rbStores, rbLastRead, rbSeen>>
    /\ UNCHANGED notRb

\* A query takes the read lock and looks the zone up.
RbQuery ==
    /\ rbLock = 0
    /\ rbSeen' = [ver |-> rbZone.ver, loading |-> \E t \in RbThreads : rbThr[t].pc = "load"]
    /\ UNCHANGED <<rbFile, rbEvt, rbCfgHas, rbSeq, rbThr, rbLock, rbZone, rbStores, rbLastRead>>
    /\ UNCHANGED notRb

\* --------------------------------------------- queries on one dataset

\* The goroutines of handleRequest that call Query on the one dataset.
CqThreads == 1..MaxQueriers

\* The ip4set zone files the dataset is loaded from.
CqFiles ==
    { <<EntryLine(<<192, 0, 2, 0>>, 24, FALSE, PackValue("127.0.0.2", <<"s", "p", "a", "m">>))>>,
      <<EntryLine(<<192, 0, 2, 50>>, 32, TRUE, EmptyValue),
        EntryLine(<<192, 0, 2, 0>>, 24, FALSE, PackValue("127.0.0.2", <<"s", "p", "a", "m">>))>>,
      <<DefaultLine(PackValue("127.0.0.9", <<"d">>)),
        EntryLine(<<192, 0, 2, 48>>, 28, FALSE, PackValue("127.0.0.3", <<"x">>)),
        EntryLine(<<192, 0, 0, 0>>, 8, FALSE, EmptyValue)>> }

\* loadIP4Set and parseIP4SetFileWithSilent from line i on: a default line
\* sets ds.def, an entry line appends an entry with its value, or with
\* 127.0.0.2 when it has none, and the default TTL.
RECURSIVE CqParse(_, _, _)
CqParse(lines, i, ds) ==
    IF i > Len(lines) THEN ds
    ELSE IF lines[i].kind = "default"
    THEN CqParse(lines, i + 1, [ds EXCEPT !.def = lines[i].val])
    ELSE CqParse(lines, i + 1,
                 [ds EXCEPT !.entries =
                      Append(ds.entries,
                             [net |-> lines[i].net, Excluded |-> lines[i].excluded,
                              Value |-> IF lines[i].val = EmptyValue THEN FallbackValue
                                        ELSE lines[i].val,
                              TTL |-> ds.defTTL])])

CqDatasets == { CqParse(f, 1, [entries |-> <<>>, def |-> EmptyValue, defTTL |-> defaultTTL]) : f \in CqFiles }

\* A goroutine that has no query.
CqNoQuery == [pc |-> "idle", name |-> NoName, i |-> 0, res |-> NoResult, with |-> FALSE]

\* The earlier version of IP4SetDataset.Query, and a plausible slip: what
\* the query computed is assigned to the entry.
QueryStoreInEntry(ds, i, value) ==
    [ds EXCEPT !.entries[i].Value = PackValue(value[1], <<>>)]

\* What IP4SetDataset.Query leaves of the dataset when it answers from
\* entry i: the effective value is kept in the local `value`, nothing is
\* assigned to the entry or to the dataset.
QueryStore(ds, i, value) == ds

CqIdle ==
    /\ cqLoaded = [entries |-> <<>>, def |-> EmptyValue, defTTL |-> defaultTTL]
    /\ cqDs = cqLoaded
    /\ cqThr = [q \in CqThreads |-> CqNoQuery]

\* The zone is published with a loaded dataset.
CqInit ==
    /\ cqLoaded \in CqDatasets
    /\ cqDs = cqLoaded
    /\ cqThr = [q \in CqThreads |-> CqNoQuery]

\* A goroutine calls Query with a name.
CqStart ==
    \E q \in CqThreads, n \in SetNames :
    /\ cqThr[q].pc = "idle"
    /\ cqThr' = [cqThr EXCEPT ![q] =
           [pc |-> IF parseReverseIP(n) = NoIP THEN "done" ELSE "scan",
            name |-> n, i |-> 1, res |-> NoResult,
            with |-> \E u \in CqThreads : cqThr[u].pc \in {"scan", "value"}]]
    /\ UNCHANGED <<cqLoaded, cqDs>>
    /\ UNCHANGED notCq

\* One turn of the loop over ds.entries, and the default after the loop.
CqScan ==
    \E q \in CqThreads :
    /\ cqThr[q].pc = "scan"
    /\ LET i == cqThr[q].i
           ip == parseReverseIP(cqThr[q].name)
       IN  cqThr' =
             IF i > Len(cqDs.entries)
             THEN [cqThr EXCEPT ![q].pc = "done",
                                ![q].res = IF cqDs.def # EmptyValue
                                           THEN SplitValue(cqDs.def) ELSE NoResult]
             ELSE IF Contains(cqDs.entries[i].net, ip) /\ ~cqDs.entries[i].Excluded
             THEN [cqThr EXCEPT ![q].pc = "value"]
             ELSE [cqThr EXCEPT ![q].i = i + 1]
    /\ UNCHANGED <<cqLoaded, cqDs>>
    /\ UNCHANGED notCq

\* The entry contains the address: its value, or the default, or
\* 127.0.0.2, is split into the result.
CqValue ==
    \E q \in CqThreads :
    /\ cqThr[q].pc = "value"
    /\ LET i == cqThr[q].i
           v1 == cqDs.entries[i].Value
           v2 == IF v1 = EmptyValue THEN cqDs.def ELSE v1
           v3 == IF v2 = EmptyValue THEN FallbackValue ELSE v2
       IN  /\ cqThr' = [cqThr EXCEPT ![q].pc = "done", ![q].res = SplitValue(v3)]
           /\ cqDs' = QueryStore(cqDs, i, v3)
    /\ UNCHANGED cqLoaded
    /\ UNCHANGED notCq

\* The goroutine has sent its response and takes the next request.
CqReturn ==
    \E q \in CqThreads :
    /\ cqThr[q].pc = "done"
    /\ cqThr' = [cqThr EXCEPT ![q] = CqNoQuery]
    /\ UNCHANGED <<cqLoaded, cqDs>>
    /\ UNCHANGED notCq

\* ---------------------------------------------- the read buffer of the loop

\* The bytes a datagram of the model is made of, and the datagrams.
BfBytes == {1, 2}

BfDatagrams == UNION { [1..n -> BfBytes] : n \in 1..MaxDgramLen }

\* buf := make([]byte, s.udpBufferSize), zeroed.
BfNewBuf == [i \in 1..MaxDgramLen |-> 0]

\* conn.ReadFromUDP(buf): the datagram is written over the head of the one
\* buffer of the loop.
ReadInto(buf, d) == [i \in 1..MaxDgramLen |-> IF i <= Len(d) THEN d[i] ELSE buf[i]]

BfIdle ==
    /\ bfBuf = BfNewBuf
    /\ bfWk = <<>>

\* The loop of ListenAndServe reads the next datagram into buf and starts
\* `go s.handleRequest(conn, buf[:n], remoteAddr)`: the worker gets a slice
\* of buf, the loop goes on to its next read.
BfRead ==
    /\ Len(bfWk) < MaxDatagrams
    /\ \E d \in BfDatagrams :
        /\ bfBuf' = ReadInto(bfBuf, d)
        /\ bfWk' = Append(bfWk, [sent |-> d, n |-> Len(d), got |-> <<>>, pc |-> "parse"])
    /\ UNCHANGED notBf

\* dns.ParseMessage(data) reads the next byte of its slice, as the buffer
\* holds it at that time.
BfParseByte ==
    \E w \in 1..Len(bfWk) :
    /\ bfWk[w].pc = "parse"
    /\ Len(bfWk[w].got) < bfWk[w].n
    /\ bfWk' = [bfWk EXCEPT ![w].got = Append(bfWk[w].got, bfBuf[Len(bfWk[w].got) + 1])]
    /\ UNCHANGED bfBuf
    /\ UNCHANGED notBf

\* The worker has parsed its slice: it answers the questions it parsed to
\* the remote address of its datagram.
BfRespond ==
    \E w \in 1..Len(bfWk) :
    /\ bfWk[w].pc = "parse"
    /\ Len(bfWk[w].got) = bfWk[w].n
    /\ bfWk' = [bfWk EXCEPT ![w].pc = "sent"]
    /\ UNCHANGED bfBuf
    /\ UNCHANGED notBf

\* ------------------------------------------------------ the file watcher

\* A file of a zone config is the text of its entry, cut into the pieces
\* the code tells apart: a path, or a type, a colon and a path.
WtPaths == { <<"fA">>, <<"fB">>, <<"fC">> }

WtFileSpecs == WtPaths \cup { <<"ip4trie", ":", "fA">>, <<"dnset", ":", "fC">> }

\* No ACL file.
WtNoPath == <<>>

WtZone(name, type, files, aclFile) ==
    [Name |-> name, Type |-> type, Files |-> files, ACL |-> aclFile]

\* The configs of the model: plain zones, a zone with an ACL file, and
\* combined zones whose files name their type.
WtConfigs ==
    { <<>>,
      <<WtZone(NameB, "dnset", << <<"fA">> >>, WtNoPath)>>,
      <<WtZone(NameB, "dnset", << <<"fA">> >>, <<"fC">>),
        WtZone(NameX, "ip4trie", << <<"fB">> >>, WtNoPath)>>,
      <<WtZone(NameB, "combined", << <<"ip4trie", ":", "fA">>, <<"dnset", ":", "fC">> >>, WtNoPath)>>,
      <<WtZone(NameB, "combined", << <<"ip4trie", ":", "fA">>, <<"fB">> >>, WtNoPath),
        WtZone(NameX, "dnset", << <<"fB">> >>, <<"fC">>)>>,
      <<WtZone(NameX, "dnset", << <<"fB">>, <<"fC">> >>, WtNoPath)>> }

\* The paths an Add or a Remove of the watcher may fail on.
WtFailing == { <<"fB">>, <<"fC">> }

\* strings.Index(file, ":") and file[idx+1:]: the text after the first
\* colon, the whole text when there is none.
cleanFile(file) ==
    IF \E i \in 1..Len(file) : file[i] = ":"
    THEN LET idx == CHOOSE i \in 1..Len(file) :
                        file[i] = ":" /\ \A j \in 1..(i - 1) : file[j] # ":"
         IN  SubSeq(file, idx + 1, Len(file))
    ELSE file

\* The paths the watcher watches on behalf of one zone.
WatchedFor(zc) ==
    { cleanFile(zc.Files[j]) : j \in 1..Len(zc.Files) } \cup
    (IF zc.ACL # WtNoPath THEN {zc.ACL} ELSE {})

\* shouldWatch of updateFileWatcher, filesToWatch of initFileWatcher.
shouldWatch(config) == UNION { WatchedFor(config[i]) : i \in 1..Len(config) }

\* A plausible slip: the paths no zone uses any more stay watched.
updateFileWatcherAddOnly(watched, config, failing) ==
    watched \cup (shouldWatch(config) \ failing)

\* updateFileWatcher: the paths that should be watched and are not are
\* added, those watched that should not be are removed; an Add or a Remove
\* that fails is logged and the path stays as it was.
updateFileWatcher(watched, config, failing) ==
    LET toAdd == (shouldWatch(config) \ watched) \ failing
        toRemove == (watched \ shouldWatch(config)) \ failing
    IN  (watched \cup toAdd) \ toRemove

\* The zones ReloadFile(changedFile) collects and rebuilds.
WtRebuilt(config, changedFile) ==
    { config[i].Name : i \in { k \in 1..Len(config) : Affected(config[k], changedFile) } }

WtIdle ==
    /\ wtCfg = <<>>
    /\ wtWatched = {}
    /\ wtLast = [op |-> "none"]

\* server.New with auto-reload: initFileWatcher adds the files of the config.
WtInit ==
    /\ wtCfg \in WtConfigs
    /\ \E failing \in SUBSET WtFailing :
          /\ wtWatched = shouldWatch(wtCfg) \ failing
          /\ wtLast = [op |-> "init", failing |-> failing]

\* The config file changed: handleConfigReload ends with updateFileWatcher
\* on the new config.
WtConfigReload ==
    /\ \E newCfg \in WtConfigs, failing \in SUBSET WtFailing :
        /\ newCfg # wtCfg
        /\ wtCfg' = newCfg
        /\ wtWatched' = updateFileWatcher(wtWatched, newCfg, failing)
        /\ wtLast' = [op |-> "update", failing |-> failing, before |-> wtWatched]
    /\ UNCHANGED notWt

\* A watched path changed: watchFiles gets the event with the path as it
\* is watched, the timer runs ReloadFile(event.Name).
WtFileEvent ==
    /\ \E p \in wtWatched :
        wtLast' = [op |-> "event", path |-> p, rebuilt |-> WtRebuilt(wtCfg, p)]
    /\ UNCHANGED <<wtCfg, wtWatched>>
    /\ UNCHANGED notWt

\* ------------------------------------------------------ change detection

\* The zone b of ZcA with one field of its configuration changed: the name
\* servers (ZcA2), the type, the files, the ACL file, the inline allow
\* rules, the inline deny rules, the SOA.
DcVariants ==
    { ZcA, ZcA2,
      [ZcA EXCEPT !.Type = "generic"],
      [ZcA EXCEPT !.Files = <<"fA", "fB">>],
      [ZcA EXCEPT !.ACL = "fC"],
      [ZcA EXCEPT !.ACLRule.Allow = <<Net(<<192, 168, 0, 0>>, 16)>>],
      [ZcA EXCEPT !.ACLRule.Deny = <<Net(<<10, 0, 0, 0>>, 8)>>],
      [ZcA EXCEPT !.SOA = [MName |-> "ns1", RName |-> "root", Minimum |-> 60]] }

\* The configs a config reload goes from and to.
DcConfigs == { <<v>> : v \in DcVariants } \cup { <<>>, <<ZcB>>, <<ZcA, ZcB>> }

DcIdle ==
    /\ dcOld = <<>>
    /\ dcNew = <<>>
    /\ dcZones = <<>>
    /\ dcChanges = [Added |-> {}, Removed |-> {}, Updated |-> {}]
    /\ dcDone = FALSE

\* The server is up with the zones of the old config, the config file has
\* been rewritten.
DcInit ==
    /\ dcOld \in DcConfigs
    /\ dcNew \in DcConfigs
    /\ dcZones = LoadedZones(dcOld, [f \in Files |-> 1])
    /\ dcChanges = [Added |-> {}, Removed |-> {}, Updated |-> {}]
    /\ dcDone = FALSE

\* reloadConfig: detectChanges(oldCfg, newCfg), then the callback
\* handleConfigReload(newCfg, changes).
DcReloadConfig ==
    /\ ~dcDone
    /\ dcChanges' = detectChanges(dcOld, dcNew)
    /\ dcZones' = handleConfigReload(dcZones, dcNew, dcChanges', [f \in Files |-> 1])
    /\ dcDone' = TRUE
    /\ UNCHANGED <<dcOld, dcNew>>
    /\ UNCHANGED notDc

\* ------------------------------------------------ the loop of ListenAndServe

\* A plausible slip: a read that failed is tried again at once.
AfterReadErrorRetry(flag) == "read"

\* Where the loop goes after ReadFromUDP returned an error: out of the
\* loop when s.done is set, else, timeout or not, to the loop condition.
AfterReadError(flag) == IF flag THEN "returned" ELSE "cond"

LsIdle ==
    /\ lsPc = "idle"
    /\ lsDone = FALSE
    /\ lsSock = "nil"
    /\ lsSd = "none"
    /\ lsHandled = 0
    /\ lsTimeouts = 0
    /\ lsAfter = 0
    /\ lsFailed = FALSE

\* ListenAndServe is called on a server that New returned.
LsInit ==
    /\ lsPc = "listen"
    /\ lsDone = FALSE
    /\ lsSock = "nil"
    /\ lsSd = "none"
    /\ lsHandled = 0
    /\ lsTimeouts = 0
    /\ lsAfter = 0
    /\ lsFailed = FALSE

\* The steps of the loop taken since Shutdown closed the socket.
LsCount == IF lsSd = "closed" /\ lsSock = "closed" THEN lsAfter + 1 ELSE lsAfter

\* net.ListenUDP, s.listener = conn.
LsListen ==
    /\ lsPc = "listen"
    /\ lsSock' = "open"
    /\ lsPc' = "cond"
    /\ UNCHANGED <<lsDone, lsSd, lsHandled, lsTimeouts, lsAfter, lsFailed>>
    /\ UNCHANGED notLs

\* for !s.done.Load(): out of the loop, where the deferred conn.Close()
\* runs, or SetReadDeadline and into ReadFromUDP.
LsCond ==
    /\ lsPc = "cond"
    /\ lsPc' = IF lsDone THEN "returned" ELSE "read"
    /\ lsSock' = IF lsDone THEN "closed" ELSE lsSock
    /\ lsAfter' = LsCount
    /\ UNCHANGED <<lsDone, lsSd, lsHandled, lsTimeouts, lsFailed>>
    /\ UNCHANGED notLs

\* ReadFromUDP returns a datagram: go s.handleRequest(...), and on to the
\* loop condition.
LsReadDatagram ==
    /\ lsPc = "read"
    /\ lsSock = "open"
    /\ lsHandled < MaxDatagrams
    /\ lsHandled' = lsHandled + 1
    /\ lsPc' = "cond"
    /\ lsAfter' = LsCount
    /\ UNCHANGED <<lsDone, lsSock, lsSd, lsTimeouts, lsFailed>>
    /\ UNCHANGED notLs

\* ReadFromUDP returns an error: the read deadline has passed, or the
\* socket is closed.
LsReadError ==
    /\ lsPc = "read"
    /\ lsSock = "open" => lsTimeouts < MaxTime
    /\ lsTimeouts' = IF lsSock = "open" THEN lsTimeouts + 1 ELSE lsTimeouts
    /\ lsPc' = AfterReadError(lsDone)
    /\ lsSock' = IF lsPc' = "returned" THEN "closed" ELSE lsSock
    /\ lsFailed' = (lsFailed \/ lsDone)
    /\ lsAfter' = LsCount
    /\ UNCHANGED <<lsDone, lsSd, lsHandled>>
    /\ UNCHANGED notLs

\* Shutdown: s.done.Store(true).
LsFlag ==
    /\ lsSd = "none"
    /\ lsDone' = TRUE
    /\ lsSd' = "flag"
    /\ UNCHANGED <<lsPc, lsSock, lsHandled, lsTimeouts, lsAfter, lsFailed>>
    /\ UNCHANGED notLs

\* Shutdown: s.listener.Close() when s.listener is not nil.
LsClose ==
    /\ lsSd = "flag"
    /\ lsSock' = IF lsSock = "open" THEN "closed" ELSE lsSock
    /\ lsSd' = "closed"
    /\ UNCHANGED <<lsPc, lsDone, lsHandled, lsTimeouts, lsAfter, lsFailed>>
    /\ UNCHANGED notLs

\* ------------------------------------------------------- specifications

NextACL == ACLAppendAllow \/ ACLAppendDeny \/ ACLPublish \/ ACLQuery

InitACL == ACLInit /\ TrieIdle /\ DNIdle /\ PNIdle /\ SrvIdle /\ MsgIdle /\ SdIdle /\ GenIdle /\ SetIdle /\ NmIdle /\ CombIdle /\ OpIdle /\ T6Idle /\ TxIdle /\ VlIdle /\ DbIdle /\ RbIdle /\ CqIdle /\ BfIdle /\ WtIdle /\ DcIdle /\ LsIdle

SpecACL == InitACL /\ [][NextACL]_vars

NextTrie == TrieParseDefault \/ TrieParseEntry \/ TrieLoaded \/ TrieQuery

InitTrie == TrieInit /\ ACLIdle /\ DNIdle /\ PNIdle /\ SrvIdle /\ MsgIdle /\ SdIdle /\ GenIdle /\ SetIdle /\ NmIdle /\ CombIdle /\ OpIdle /\ T6Idle /\ TxIdle /\ VlIdle /\ DbIdle /\ RbIdle /\ CqIdle /\ BfIdle /\ WtIdle /\ DcIdle /\ LsIdle

SpecTrie == InitTrie /\ [][NextTrie]_vars

NextDN == DNParseDefault \/ DNParseEntry \/ DNLoaded \/ DNQuery

InitDN == DNInit /\ ACLIdle /\ TrieIdle /\ PNIdle /\ SrvIdle /\ MsgIdle /\ SdIdle /\ GenIdle /\ SetIdle /\ NmIdle /\ CombIdle /\ OpIdle /\ T6Idle /\ TxIdle /\ VlIdle /\ DbIdle /\ RbIdle /\ CqIdle /\ BfIdle /\ WtIdle /\ DcIdle /\ LsIdle

SpecDN == InitDN /\ [][NextDN]_vars

NextPN == PNCall \/ PNLoopEnds \/ PNLabel \/ PNError \/ PNPointer \/ PNReturn

InitPN == PNInit /\ ACLIdle /\ TrieIdle /\ DNIdle /\ SrvIdle /\ MsgIdle /\ SdIdle /\ GenIdle /\ SetIdle /\ NmIdle /\ CombIdle /\ OpIdle /\ T6Idle /\ TxIdle /\ VlIdle /\ DbIdle /\ RbIdle /\ CqIdle /\ BfIdle /\ WtIdle /\ DcIdle /\ LsIdle

SpecPN == InitPN /\ [][NextPN]_vars

NextRoute == RqReceive \/ RqQuestion \/ RqRespond

InitRoute == RouteInit /\ ACLIdle /\ TrieIdle /\ DNIdle /\ PNIdle /\ MsgIdle /\ SdIdle /\ GenIdle /\ SetIdle /\ NmIdle /\ CombIdle /\ OpIdle /\ T6Idle /\ TxIdle /\ VlIdle /\ DbIdle /\ RbIdle /\ CqIdle /\ BfIdle /\ WtIdle /\ DcIdle /\ LsIdle

SpecRoute == InitRoute /\ [][NextRoute]_vars

NextReload == FileWrite \/ WatchEvent \/ TimerFire \/ Sighup \/ ConfigReload

InitReload == ReloadInit /\ ACLIdle /\ TrieIdle /\ DNIdle /\ PNIdle /\ MsgIdle /\ SdIdle /\ GenIdle /\ SetIdle /\ NmIdle /\ CombIdle /\ OpIdle /\ T6Idle /\ TxIdle /\ VlIdle /\ DbIdle /\ RbIdle /\ CqIdle /\ BfIdle /\ WtIdle /\ DcIdle /\ LsIdle

SpecReload == InitReload /\ [][NextReload]_vars

NextConc ==
    \/ CoReloadFile \/ CoReload \/ CoConfigReload \/ CoRemove
    \/ CoLoadBegin \/ CoLoadEnd \/ CoLoadACL \/ CoStore \/ CoSwap
    \/ CoQueryMatch \/ CoQueryACL \/ CoQueryApex \/ CoQueryDataset \/ CoQueryReturn

InitConc == CoInit /\ ACLIdle /\ TrieIdle /\ DNIdle /\ PNIdle /\ MsgIdle /\ SdIdle /\ GenIdle /\ SetIdle /\ NmIdle /\ CombIdle /\ OpIdle /\ T6Idle /\ TxIdle /\ VlIdle /\ DbIdle /\ RbIdle /\ CqIdle /\ BfIdle /\ WtIdle /\ DcIdle /\ LsIdle

SpecConc == InitConc /\ [][NextConc]_vars

NextMsg ==
    MsgParseError \/ MsgCrash \/ MsgIgnore \/ MsgAccept \/ MsgQuestion \/ MsgRespond

InitMsg == MsgInit /\ ACLIdle /\ TrieIdle /\ DNIdle /\ PNIdle /\ SdIdle /\ GenIdle /\ SetIdle /\ NmIdle /\ CombIdle /\ OpIdle /\ T6Idle /\ TxIdle /\ VlIdle /\ DbIdle /\ RbIdle /\ CqIdle /\ BfIdle /\ WtIdle /\ DcIdle /\ LsIdle

SpecMsg == InitMsg /\ [][NextMsg]_vars

NextShut ==
    SdFileEvent \/ SdWatchEvent \/ SdTimerFire \/ SdCallback \/ SdFlag \/ SdCloseListener \/ SdCloseWatcher \/ SdStopTimer \/ SdStopManager \/ CmLoopSeesClosed \/ SdSendDone

InitShut == ShutInit /\ ACLIdle /\ TrieIdle /\ DNIdle /\ PNIdle /\ MsgIdle /\ GenIdle /\ SetIdle /\ NmIdle /\ CombIdle /\ OpIdle /\ T6Idle /\ TxIdle /\ VlIdle /\ DbIdle /\ RbIdle /\ CqIdle /\ BfIdle /\ WtIdle /\ DcIdle /\ LsIdle

SpecShut == InitShut /\ [][NextShut]_vars

NextGen ==
    GenParseLine \/ GenLoaded \/ GenQuery

InitGen == GenInit /\ ACLIdle /\ TrieIdle /\ DNIdle /\ PNIdle /\ SrvIdle /\ MsgIdle /\ SdIdle /\ SetIdle /\ NmIdle /\ CombIdle /\ OpIdle /\ T6Idle /\ TxIdle /\ VlIdle /\ DbIdle /\ RbIdle /\ CqIdle /\ BfIdle /\ WtIdle /\ DcIdle /\ LsIdle

SpecGen == InitGen /\ [][NextGen]_vars

NextSet ==
    SetParseDefault \/ SetParseEntry \/ SetLoaded \/ SetQuery

InitSet == SetInit /\ ACLIdle /\ TrieIdle /\ DNIdle /\ PNIdle /\ SrvIdle /\ MsgIdle /\ SdIdle /\ GenIdle /\ NmIdle /\ CombIdle /\ OpIdle /\ T6Idle /\ TxIdle /\ VlIdle /\ DbIdle /\ RbIdle /\ CqIdle /\ BfIdle /\ WtIdle /\ DcIdle /\ LsIdle

SpecSet == InitSet /\ [][NextSet]_vars

NextName ==
    NmRoundTrip \/ NmEncode

InitName == NmInit /\ ACLIdle /\ TrieIdle /\ DNIdle /\ PNIdle /\ SrvIdle /\ MsgIdle /\ SdIdle /\ GenIdle /\ SetIdle /\ CombIdle /\ OpIdle /\ T6Idle /\ TxIdle /\ VlIdle /\ DbIdle /\ RbIdle /\ CqIdle /\ BfIdle /\ WtIdle /\ DcIdle /\ LsIdle

SpecName == InitName /\ [][NextName]_vars

NextComb ==
    CombLoadChild \/ CombLoadFails \/ CombLoaded \/ CombQuery

InitComb == CombInit /\ ACLIdle /\ TrieIdle /\ DNIdle /\ PNIdle /\ SrvIdle /\ MsgIdle /\ SdIdle /\ GenIdle /\ SetIdle /\ NmIdle /\ OpIdle /\ T6Idle /\ TxIdle /\ VlIdle /\ DbIdle /\ RbIdle /\ CqIdle /\ BfIdle /\ WtIdle /\ DcIdle /\ LsIdle

SpecComb == InitComb /\ [][NextComb]_vars

NextOps ==
    OpNew \/ OpFileWrite \/ OpReload \/ OpReloadFile \/ OpConfigReload

InitOps == OpInit /\ ACLIdle /\ TrieIdle /\ DNIdle /\ PNIdle /\ MsgIdle /\ SdIdle /\ GenIdle /\ SetIdle /\ NmIdle /\ CombIdle /\ T6Idle /\ TxIdle /\ VlIdle /\ DbIdle /\ RbIdle /\ CqIdle /\ BfIdle /\ WtIdle /\ DcIdle /\ LsIdle

SpecOps == InitOps /\ [][NextOps]_vars

NextTrie6 ==
    T6ParseDefault \/ T6ParseEntry \/ T6Loaded \/ T6Query

InitTrie6 == T6Init /\ ACLIdle /\ TrieIdle /\ DNIdle /\ PNIdle /\ SrvIdle /\ MsgIdle /\ SdIdle /\ GenIdle /\ SetIdle /\ NmIdle /\ CombIdle /\ OpIdle /\ TxIdle /\ VlIdle /\ DbIdle /\ RbIdle /\ CqIdle /\ BfIdle /\ WtIdle /\ DcIdle /\ LsIdle

SpecTrie6 == InitTrie6 /\ [][NextTrie6]_vars

NextTxt ==
    TxQueryTSet \/ TxQueryTrie

InitTxt == TxInit /\ ACLIdle /\ TrieIdle /\ DNIdle /\ PNIdle /\ SrvIdle /\ MsgIdle /\ SdIdle /\ GenIdle /\ SetIdle /\ NmIdle /\ CombIdle /\ OpIdle /\ T6Idle /\ VlIdle /\ DbIdle /\ RbIdle /\ CqIdle /\ BfIdle /\ WtIdle /\ DcIdle /\ LsIdle

SpecTxt == InitTxt /\ [][NextTxt]_vars

NextVal ==
    VlParse \/ VlQueryA

InitVal == VlInit /\ ACLIdle /\ TrieIdle /\ DNIdle /\ PNIdle /\ SrvIdle /\ MsgIdle /\ SdIdle /\ GenIdle /\ SetIdle /\ NmIdle /\ CombIdle /\ OpIdle /\ T6Idle /\ TxIdle /\ DbIdle /\ RbIdle /\ CqIdle /\ BfIdle /\ WtIdle /\ DcIdle /\ LsIdle

SpecVal == InitVal /\ [][NextVal]_vars

NextDebounce ==
    DbEvent \/ DbTick \/ DbFire \/ DbCallback

InitDebounce == DbIdle /\ ACLIdle /\ TrieIdle /\ DNIdle /\ PNIdle /\ SrvIdle /\ MsgIdle /\ SdIdle /\ GenIdle /\ SetIdle /\ NmIdle /\ CombIdle /\ OpIdle /\ T6Idle /\ TxIdle /\ VlIdle /\ RbIdle /\ CqIdle /\ BfIdle /\ WtIdle /\ DcIdle /\ LsIdle

SpecDebounce == InitDebounce /\ [][NextDebounce]_vars

NextRebuild ==
    RbWrite \/ RbStart \/ RbLoad \/ RbLock \/ RbStore \/ RbUnlock \/ RbQuery

InitRebuild == RbIdle /\ ACLIdle /\ TrieIdle /\ DNIdle /\ PNIdle /\ SrvIdle /\ MsgIdle /\ SdIdle /\ GenIdle /\ SetIdle /\ NmIdle /\ CombIdle /\ OpIdle /\ T6Idle /\ TxIdle /\ VlIdle /\ DbIdle /\ CqIdle /\ BfIdle /\ WtIdle /\ DcIdle /\ LsIdle

SpecRebuild == InitRebuild /\ [][NextRebuild]_vars

NextQueries ==
    CqStart \/ CqScan \/ CqValue \/ CqReturn

InitQueries == CqInit /\ ACLIdle /\ TrieIdle /\ DNIdle /\ PNIdle /\ SrvIdle /\ MsgIdle /\ SdIdle /\ GenIdle /\ SetIdle /\ NmIdle /\ CombIdle /\ OpIdle /\ T6Idle /\ TxIdle /\ VlIdle /\ DbIdle /\ RbIdle /\ BfIdle /\ WtIdle /\ DcIdle /\ LsIdle

SpecQueries == InitQueries /\ [][NextQueries]_vars

NextBuffer ==
    BfRead \/ BfParseByte \/ BfRespond

InitBuffer == BfIdle /\ ACLIdle /\ TrieIdle /\ DNIdle /\ PNIdle /\ SrvIdle /\ MsgIdle /\ SdIdle /\ GenIdle /\ SetIdle /\ NmIdle /\ CombIdle /\ OpIdle /\ T6Idle /\ TxIdle /\ VlIdle /\ DbIdle /\ RbIdle /\ CqIdle /\ WtIdle /\ DcIdle /\ LsIdle

SpecBuffer == InitBuffer /\ [][NextBuffer]_vars

NextWatch ==
    WtConfigReload \/ WtFileEvent

InitWatch == WtInit /\ ACLIdle /\ TrieIdle /\ DNIdle /\ PNIdle /\ SrvIdle /\ MsgIdle /\ SdIdle /\ GenIdle /\ SetIdle /\ NmIdle /\ CombIdle /\ OpIdle /\ T6Idle /\ TxIdle /\ VlIdle /\ DbIdle /\ RbIdle /\ CqIdle /\ BfIdle /\ DcIdle /\ LsIdle

SpecWatch == InitWatch /\ [][NextWatch]_vars

NextDetect ==
    DcReloadConfig

InitDetect == DcInit /\ ACLIdle /\ TrieIdle /\ DNIdle /\ PNIdle /\ SrvIdle /\ MsgIdle /\ SdIdle /\ GenIdle /\ SetIdle /\ NmIdle /\ CombIdle /\ OpIdle /\ T6Idle /\ TxIdle /\ VlIdle /\ DbIdle /\ RbIdle /\ CqIdle /\ BfIdle /\ WtIdle /\ LsIdle

SpecDetect == InitDetect /\ [][NextDetect]_vars

NextListen ==
    LsListen \/ LsCond \/ LsReadDatagram \/ LsReadError \/ LsFlag \/ LsClose

InitListen == LsInit /\ ACLIdle /\ TrieIdle /\ DNIdle /\ PNIdle /\ SrvIdle /\ MsgIdle /\ SdIdle /\ GenIdle /\ SetIdle /\ NmIdle /\ CombIdle /\ OpIdle /\ T6Idle /\ TxIdle /\ VlIdle /\ DbIdle /\ RbIdle /\ CqIdle /\ BfIdle /\ WtIdle /\ DcIdle

SpecListen == InitListen /\ [][NextListen]_vars

\* The goroutine in ListenAndServe keeps running, and a read returns: with
\* an error at the read deadline at the latest, at once on a closed socket.
SpecListenFair == SpecListen /\ WF_vars(LsCond) /\ WF_vars(LsReadError)

\* --------------------------------------------------------------- claims

\* Some network of the list contains the address.
InAny(list, ip) == \E i \in 1..Len(list) : Contains(list[i], ip)

\* C5: AllowQuery(s) is true exactly when allow and deny are both empty, or
\* no deny network contains s and (allow is empty or some allow network
\* contains s).  A deny match rejects s even when an allow network contains
\* it too, and a non-empty allow list rejects every s it does not contain.
C5_AllowQueryPolicy ==
    aclSrc # NoIP =>
        /\ aclRes <=>
             \/ (aclAllow = <<>> /\ aclDeny = <<>>)
             \/ (/\ ~InAny(aclDeny, aclSrc)
                 /\ (aclAllow = <<>> \/ InAny(aclAllow, aclSrc)))
        /\ (InAny(aclDeny, aclSrc) => ~aclRes)
        /\ ((aclAllow # <<>> /\ ~InAny(aclAllow, aclSrc)) => ~aclRes)

\* A source inside both an allow network and a deny network was rejected.
C5_Witness ==
    /\ aclSrc # NoIP
    /\ InAny(aclDeny, aclSrc)
    /\ InAny(aclAllow, aclSrc)
    /\ ~aclRes

\* The entry lines of the file that are stored: no later entry line names
\* the same network.
TrieStored ==
    { i \in 1..Len(trieLines) :
        /\ trieLines[i].kind = "entry"
        /\ ~\E j \in (i + 1)..Len(trieLines) :
              trieLines[j].kind = "entry" /\ trieLines[j].net = trieLines[i].net }

TrieCovering(ip) == { i \in TrieStored : Contains(trieLines[i].net, ip) }

TrieLongest(ip) ==
    CHOOSE i \in TrieCovering(ip) :
        \A j \in TrieCovering(ip) : trieLines[j].net.ones <= trieLines[i].net.ones

\* The value of entry line i: its own, else the default line in force
\* when it was read, else 127.0.0.2.
TrieLineValue(i) ==
    LET defs == { j \in 1..(i - 1) : trieLines[j].kind = "default" }
    IN  IF trieLines[i].val # EmptyValue THEN trieLines[i].val
        ELSE IF defs = {} THEN FallbackValue
        ELSE trieLines[CHOOSE j \in defs : \A k \in defs : k <= j].val

\* C7: an ip4trie Query of an IPv4 address returns the value of the stored
\* entry with the longest prefix covering the address; no match when that
\* entry is an exclusion, even though a shorter non-excluded prefix covers
\* the address; no match when no entry covers the address.
C7_TrieLongestPrefix ==
    \A a \in TrieAddrs :
        trieQ = ReverseName(a) =>
            IF TrieCovering(a) = {} THEN trieRes = NoResult
            ELSE IF trieLines[TrieLongest(a)].excluded THEN trieRes = NoResult
            ELSE trieRes = SplitValue(TrieLineValue(TrieLongest(a)))

\* 192.0.2.50 was queried in a trie that holds 192.0.2.0/24 with a value
\* and the exclusion !192.0.2.50, and the query found no match.
C7_Witness ==
    /\ trieQ = ReverseName(<<192, 0, 2, 50>>)
    /\ trieRes = NoResult
    /\ \E i \in TrieStored :
          /\ trieLines[i].net = Net(<<192, 0, 2, 0>>, 24)
          /\ ~trieLines[i].excluded
    /\ \E i \in TrieStored :
          /\ trieLines[i].net = Net(<<192, 0, 2, 50>>, 32)
          /\ trieLines[i].excluded

\* The query name as the dnset holds names: lowercase, with a trailing dot.
DNAsked == WithDot(ToLower(dnQ))

\* The stored plain entries named like the query, and the stored wildcard
\* entries the query name is, or lies under.
DNExactFor(n) == { i \in 1..Len(dnEntries) : ~dnEntries[i].Wildcard /\ dnEntries[i].Name = n }

DNWildFor(n) ==
    { i \in 1..Len(dnEntries) :
        /\ dnEntries[i].Wildcard
        /\ \/ n = dnEntries[i].Name
           \/ \E k \in 1..Len(n) : SubSeq(n, k, Len(n)) = Dot \o dnEntries[i].Name }

RqSuffixZones == { z \in DOMAIN zones : HasSuffix(rqLast.name, ZoneDot(z)) }

\* The matched zone of the last question turns its source down.
RqDenied ==
    /\ rqLast.asked
    /\ rqLast.zone # NoZone
    /\ zones[rqLast.zone].acl.set
    /\ \/ InAny(zones[rqLast.zone].acl.Deny, rqLast.src)
       \/ /\ Len(zones[rqLast.zone].acl.Allow) > 0
          /\ ~InAny(zones[rqLast.zone].acl.Allow, rqLast.src)

RqCallsOf(op, what) ==
    { i \in 1..Len(rqLast.calls) : rqLast.calls[i].op = op /\ rqLast.calls[i].what = what }

\* C1: whatever a reload is doing, what a query has read of its matched
\* zone (ACL, nameservers and SOA, dataset) are the fields of one Zone, the
\* one published under the zone's name from the moment the query found it
\* until it returns; and the dataset of that Zone is fully built.
C1_QueryReadsOneZone ==
    qry.on =>
        /\ qry.m \in DOMAIN zones
        /\ zones[qry.m] = qry.zone
        /\ \A i \in 1..Len(qry.reads) :
              qry.reads[i].value = FieldOf(zones[qry.m], qry.reads[i].field)
        /\ qry.zone.dataset.complete

\* A query has read the ACL, the apex data and the dataset of its zone
\* while a reload holds another dataset for that zone, ready to be stored.
C1_Witness ==
    /\ qry.on
    /\ Len(qry.reads) = 3
    /\ rld.on
    /\ rld.pc = "store"
    /\ Head(rld.work).Name = qry.m
    /\ rld.ds # qry.zone.dataset

\* C2: when a reload (ReloadFile, handleConfigReload or Reload) cannot
\* build the dataset or the ACL of a zone that is published, the registry
\* entry of that zone stays as it was.
C2_FailedReloadKeepsZone ==
    [][\A z \in DOMAIN zones :
          z \in failed' => (z \in DOMAIN zones' /\ zones'[z] = zones[z])]_vars

\* C3: every change event on a watched zone file is followed by a rebuild
\* of every zone that lists the file: once no event and no debounce timer
\* is pending, no zone is left with a change that no rebuild has followed.
\* A change of file A and then of file B before the timer fires leaves both
\* zones rebuilt after it fired.
C3_EveryChangeRebuilt ==
    (events = <<>> /\ reloadTimer = NoFile) => stale = {}

\* C4: queryZones answers from a registered zone whose dotted name is the
\* longest suffix of the query name, and from no zone when none is a suffix;
\* every call it makes (ACL denial, dataset query, response metric) is for
\* that zone, so a zone that is a shorter suffix is never consulted, also
\* when the longest one denies the source or lists no record.
C4_LongestSuffixZone ==
    rqLast.asked =>
        /\ (rqLast.zone = NoZone) <=> (RqSuffixZones = {})
        /\ rqLast.zone # NoZone =>
            /\ rqLast.zone \in RqSuffixZones
            /\ \A y \in RqSuffixZones : Len(ZoneDot(y)) <= Len(ZoneDot(rqLast.zone))
        /\ \A i \in 1..Len(rqLast.calls) : rqLast.calls[i].zone = rqLast.zone
        /\ \A i \in 1..Len(rqLast.calls) :
              rqLast.calls[i].op = "Query" =>
                  rqLast.calls[i].name =
                      TrimSuffix(TrimSuffix(rqLast.name, ZoneDot(rqLast.zone)), Dot)
        /\ rqLast.zone = NoZone => rqLast.answers = <<>>

\* x.a.b. was asked of a registry with the zones b and a.b; a.b turned the
\* source down, and b, which lists x.a, was left alone.
C4_Witness ==
    /\ RqDenied
    /\ rqLast.zone = NameAB
    /\ NameB \in DOMAIN zones
    /\ DatasetQuery(zones[NameB].dataset, NameXA).found
    /\ rqLast.name = NameXA \o Dot \o NameB \o Dot
    /\ rqLast.answers = <<>>

\* C6: when the ACL of the matched zone rejects the source, queryZones
\* returns no record whatever the query type (NS and SOA at the apex too),
\* does not call the zone's dataset, and records acl_denied exactly once.
C6_ACLDenyIsFinal ==
    RqDenied =>
        /\ rqLast.answers = <<>>
        /\ \A i \in 1..Len(rqLast.calls) : rqLast.calls[i].op # "Query"
        /\ Cardinality(RqCallsOf("RecordError", "acl_denied")) = 1

\* An NS or SOA query at the apex of a zone that has nameservers and an
\* SOA, from a source the zone's ACL rejects.
C6_Witness ==
    /\ RqDenied
    /\ rqLast.name = ZoneDot(rqLast.zone)
    /\ rqLast.qtype = QueryTypeSOA
    /\ zones[rqLast.zone].soa.set
    /\ Len(zones[rqLast.zone].ns) > 0

\* C10: the RCode of a response is NXDOMAIN (3) exactly when the message
\* had a question and the answers gathered over all its questions are
\* empty, and NoError (0) otherwise.
C10_RCodeRule ==
    rqResp.sent =>
        IF rqResp.QDCount > 0 /\ Len(rqResp.answers) = 0
        THEN RCodeOf(rqResp.flags) = RCodeNameErr
        ELSE RCodeOf(rqResp.flags) = RCodeNoError

\* A message without questions was answered: no answers, NoError.
C10_Witness ==
    /\ rqResp.sent
    /\ rqResp.QDCount = 0
    /\ rqResp.ANCount = 0
    /\ RCodeOf(rqResp.flags) = RCodeNoError

\* C9: parsing a question name terminates on every datagram, also one whose
\* compression pointers point to themselves or form a cycle, and returns a
\* name or an error: no call of parseName starts a recursion without end.
C9_ParseNameTerminates == pnState # "overflow"

\* C11: a datagram that ParseMessage makes no message of is counted once
\* as a parse_error, gets no response, and leaves the zones as loaded.
C11_ParseFailureCounted ==
    (hr.pc \in {"done", "crashed"} /\ ParseMessage(dgram).kind # "ok") =>
        /\ parseErrors = 1
        /\ sent = NoResp
        /\ zones = LoadedZones(cfg, fs)

\* Where ParseMessage returns its error, the claim's three parts hold.
MsgErrorPathClean ==
    (hr.pc = "done" /\ ParseMessage(dgram).kind = "err") =>
        /\ parseErrors = 1
        /\ sent = NoResp
        /\ zones = LoadedZones(cfg, fs)

\* C12: Shutdown is never left in Stop, sending on cm.done, with no
\* watchLoop in its select to take the value: from there it cannot return.
C12_ShutdownReturns == ~(sd = "send" /\ cm.loop # "select")

\* C13: no timer callback stores a zone once the shutdown flag is set.
C13_NoWriteAfterFlag == lateWrites = {}

\* The record types the claim names, by the word of the zone file.
GenTypeOf(rtype) ==
    CASE rtype = "A" -> QueryTypeA [] rtype = "TXT" -> QueryTypeTXT
      [] rtype = "MX" -> QueryTypeMX [] rtype = "AAAA" -> QueryTypeAAAA

\* The data of a record line: its field, for MX the preference and the
\* exchange.
GenLineData(l) ==
    IF l.rtype = "MX" THEN l.fields[1] \o " " \o l.fields[2] ELSE l.fields[1]

\* The complete record lines of the file for a name and a type.
GenRecordsOf(name, qtype) ==
    { i \in 1..Len(genLines) :
        /\ GenKey(genLines[i].name) = GenKey(name)
        /\ GenTypeOf(genLines[i].rtype) = qtype
        /\ (genLines[i].rtype = "MX" => Len(genLines[i].fields) = 2) }

\* Some answer has the type asked and the data of a record of the name.
GenAnswered ==
    \E k \in 1..Len(genAns) :
        /\ genAns[k].Type = genQ.qtype
        /\ \E i \in GenRecordsOf(genQ.name, genQ.qtype) :
              genAns[k].Data = GenLineData(genLines[i])

\* C14: a query of type A, AAAA, TXT or MX for a name with a record of
\* that type in the generic zone file gets an answer of that type with the
\* data of such a record.
C14_GenericAnswersEveryType ==
    (genPhase = "serve" /\ genQ.asked /\ GenRecordsOf(genQ.name, genQ.qtype) # {})
        => GenAnswered

\* For the types A and TXT it does.
GenAandTXTAnswered ==
    (/\ genPhase = "serve" /\ genQ.asked
     /\ genQ.qtype \in {QueryTypeA, QueryTypeTXT}
     /\ GenRecordsOf(genQ.name, genQ.qtype) # {}) => GenAnswered

\* The entry lines of the ip4set file, in file order, whose network
\* contains the address.
SetContaining(ip) ==
    { i \in 1..Len(setLines) :
        setLines[i].kind = "entry" /\ Contains(setLines[i].net, ip) }

SetFirst(ip) == CHOOSE i \in SetContaining(ip) : \A j \in SetContaining(ip) : i <= j

\* C15: an ip4set Query of an IPv4 address is decided by the first entry
\* in file order that contains the address: no match when it is an
\* exclusion, else its value; no match when no entry contains the address.
C15_SetFirstEntryDecides ==
    \A a \in SetAddrs :
        (setPhase = "serve" /\ setQ = ReverseName(a)) =>
            IF SetContaining(a) = {} THEN setRes = NoResult
            ELSE IF setLines[SetFirst(a)].excluded THEN setRes = NoResult
            ELSE setRes = SplitValue(IF setLines[SetFirst(a)].val = EmptyValue
                                     THEN FallbackValue
                                     ELSE setLines[SetFirst(a)].val)

\* Without exclusions and without a default line the claim holds.
SetPlainFirstWins ==
    (\A i \in 1..Len(setLines) : setLines[i].kind = "entry" /\ ~setLines[i].excluded)
        => C15_SetFirstEntryDecides

\* The address asked is covered by the entry 0.0.0.0/0, written without a
\* value, and by no longer prefix.
TrieRootDecides(a) ==
    /\ triePhase = "serve"
    /\ trieQ = ReverseName(a)
    /\ TrieCovering(a) # {}
    /\ trieLines[TrieLongest(a)].net.ones = 0
    /\ trieLines[TrieLongest(a)].val = EmptyValue
    /\ ~trieLines[TrieLongest(a)].excluded

\* C16: for such an address Query returns the default value of the
\* dataset when the file has a default line, before or after the entry,
\* and 127.0.0.2 with an empty TXT only when it has none.
C16_RootEntryGetsDefault ==
    \A a \in TrieAddrs :
        TrieRootDecides(a) =>
            trieRes = SplitValue(IF trieDefVal # EmptyValue THEN trieDefVal
                                 ELSE FallbackValue)

\* The name given is legal: every label has 1 to 63 bytes.
NmLegal == \A i \in 1..Len(nmLabels) : Len(nmLabels[i]) \in 1..MaxLabelLen

NmDotFree == \A i \in 1..Len(nmLabels) : \A k \in 1..Len(nmLabels[i]) : nmLabels[i][k] # DotByte

\* C17: the name parseName returns for the wire form of a legal name
\* encodes to that wire form again, and encodeName gives an error and no
\* bytes for a name with a label of more than 63 bytes.
C17_NameRoundTrip ==
    /\ (nmOut.op = "roundtrip" /\ NmLegal) =>
           /\ nmOut.parsed
           /\ ~nmOut.encoded.err
           /\ nmOut.encoded.bytes = WireOf(nmLabels, 1)
    /\ (nmOut.op = "encode" /\ NmDotFree /\ ~NmLegal) =>
           /\ nmOut.encoded.err
           /\ nmOut.encoded.bytes = <<>>

\* The round trip holds for the legal names without a dot byte in a label.
NmRoundTripDotFree ==
    (nmOut.op = "roundtrip" /\ NmLegal /\ NmDotFree) =>
        /\ nmOut.parsed
        /\ ~nmOut.encoded.err
        /\ nmOut.encoded.bytes = WireOf(nmLabels, 1)

\* encodeName turns down every name with a label of more than 63 bytes.
NmLongLabelError ==
    (nmOut.op = "encode" /\ NmDotFree /\ ~NmLegal) =>
        /\ nmOut.encoded.err
        /\ nmOut.encoded.bytes = <<>>

\* The files of the list whose dataset has a match for the name asked.
CombMatching ==
    { i \in 1..Len(combFiles) :
        DatasetQuery([contents |-> <<combFiles[i]>>, complete |-> TRUE], combQ).found }

CombFirstMatch == CHOOSE i \in CombMatching : \A j \in CombMatching : i <= j

\* C18: the children of a combined dataset are the datasets of the files
\* in list order; Query calls them in that order up to the first with a
\* match and returns its result, and returns no match, having called every
\* child, only when none has one.
C18_CombinedFirstMatch ==
    (combPhase = "serve" /\ combQ # NoName) =>
        /\ Len(combDatasets) = Len(combFiles)
        /\ \A i \in 1..Len(combFiles) : combDatasets[i].contents = <<combFiles[i]>>
        /\ IF CombMatching = {}
           THEN /\ combRes = NoResult
                /\ combAsked = [i \in 1..Len(combFiles) |-> i]
           ELSE /\ combRes = DatasetQuery(combDatasets[CombFirstMatch], combQ)
                /\ combAsked = [i \in 1..CombFirstMatch |-> i]

\* Two files of the list have a match for the name asked, with different
\* results; the first of them answered and the later one was not called.
C18_Witness ==
    /\ combPhase = "serve"
    /\ combQ # NoName
    /\ \E i, j \in CombMatching :
          /\ i < j
          /\ DatasetQuery(combDatasets[i], combQ) # DatasetQuery(combDatasets[j], combQ)
          /\ i = CombFirstMatch
          /\ combRes = DatasetQuery(combDatasets[i], combQ)
          /\ \A k \in 1..Len(combAsked) : combAsked[k] # j

\* The name of the one question of the datagram, in lowercase.
MsgLowerName == ToLower(Chars(ParseMessage(dgram).questions[1].Name))

\* C19: the response to a query of one question carries the answers the
\* query gets with its name in lowercase, whatever the case of the letters
\* of the name asked.
C19_RoutingIgnoresCase ==
    (/\ hr.pc = "done" /\ sent.sent
     /\ Len(ParseMessage(dgram).questions) = 1) =>
        \A m \in MatchedZones(zones, MsgLowerName) :
            sent.answers = queryZones(zones, m, MsgSource, MsgLowerName,
                                      ParseMessage(dgram).questions[1].Type).answers

\* For a name asked in lowercase the response is the one queryZones gives.
MsgLowerCaseRouted ==
    (/\ hr.pc = "done" /\ sent.sent
     /\ Len(ParseMessage(dgram).questions) = 1
     /\ Chars(ParseMessage(dgram).questions[1].Name) = MsgLowerName) =>
        \A m \in MatchedZones(zones, MsgLowerName) :
            sent.answers = queryZones(zones, m, MsgSource, MsgLowerName,
                                      ParseMessage(dgram).questions[1].Type).answers

\* The last question asked the name of its matched zone, with or without
\* the final dot, from a source the zone does not turn down.
RqAtApex ==
    /\ rqLast.asked
    /\ rqLast.zone # NoZone
    /\ rqLast.name \in {ZoneDot(rqLast.zone), rqLast.zone}
    /\ ~RqDenied

BuiltFrom(zs, n, config, files) ==
    /\ n \in DOMAIN zs
    /\ \E i \in 1..Len(config) :
          /\ config[i].Name = n
          /\ CanBuild(config[i], files)
          /\ zs[n] = NewZone(config[i], LoadDataset(config[i], files).ds,
                             LoadZoneACL(config[i], files).acl)

\* C21: after handleConfigReload(newCfg, changes) no removed zone is in the
\* registry, every added or updated zone that could be loaded is in it as
\* the Zone built from the new config, and a zone in none of the three lists
\* has the entry it had before the call, or none as before.
C21_ConfigReloadEffect ==
    opLast.op = "handleConfigReload" =>
        LET ch == opLast.changes
            named == ch.Removed \cup ch.Added \cup ch.Updated
        IN  /\ DOMAIN zones \cap ch.Removed = {}
            /\ \A n \in ch.Added \cup ch.Updated :
                  (\E i \in 1..Len(cfg) : cfg[i].Name = n /\ CanBuild(cfg[i], opLast.files))
                      => BuiltFrom(zones, n, cfg, opLast.files)
            /\ \A n \in (DOMAIN zones \cup DOMAIN opLast.before) \ named :
                  /\ n \in DOMAIN zones
                  /\ n \in DOMAIN opLast.before
                  /\ zones[n] = opLast.before[n]

\* After a file was rewritten, a config reload removed a zone that was
\* published and added a zone, which it built.
C21_Witness ==
    /\ opLast.op = "handleConfigReload"
    /\ opLast.changes.Removed \cap DOMAIN opLast.before # {}
    /\ opLast.changes.Added \cap DOMAIN zones # {}
    /\ opWrites > 0

OpsUpWithNoZone ==
    /\ opLast.op = "loadZones"
    /\ ~opPath
    /\ Len(cfg) > 0
    /\ DOMAIN zones = {}
    /\ opUp = "up"

\* The zones a file concerns: those of the config that list it among their
\* files or name it as their ACL file.
OpsUsing(file) ==
    { cfg[i].Name : i \in { k \in 1..Len(cfg) :
          (\E j \in 1..Len(cfg[k].Files) : cfg[k].Files[j] = file) \/ cfg[k].ACL = file } }

\* C29: ReloadFile(changedFile) leaves the registry entry of every zone
\* that does not use the file as it was, and adds no such zone; when no
\* zone uses the file the registry is as it was.
C29_ReloadFileFrame ==
    opLast.op = "ReloadFile" =>
        /\ \A n \in (DOMAIN zones \cup DOMAIN opLast.before) \ OpsUsing(opLast.file) :
              /\ n \in DOMAIN zones
              /\ n \in DOMAIN opLast.before
              /\ zones[n] = opLast.before[n]
        /\ OpsUsing(opLast.file) = {} => zones = opLast.before

\* ReloadFile rebuilt a zone from a rewritten file while another zone,
\* whose own file was rewritten as well or not, kept its entry.
C29_Witness ==
    /\ opLast.op = "ReloadFile"
    /\ opWrites > 0
    /\ \E n \in OpsUsing(opLast.file) :
          n \in DOMAIN zones /\ n \in DOMAIN opLast.before /\ zones[n] # opLast.before[n]
    /\ \E n \in DOMAIN zones : n \notin OpsUsing(opLast.file)

\* The entries an ip6trie file stores: for every network the last line
\* that names it.
T6Stored ==
    { i \in 1..Len(t6Lines) :
        /\ t6Lines[i].kind = "entry"
        /\ \A j \in (i + 1)..Len(t6Lines) :
              t6Lines[j].kind = "entry" => t6Lines[j].net # t6Lines[i].net }

\* The stored entries whose prefix covers an address, and the one of them
\* with the longest prefix.
T6Covering(ip) ==
    { i \in T6Stored :
        \A k \in 1..NibblesOf(t6Lines[i].net.ones) : t6Lines[i].net.IP[k] = ip[k] }

T6Longest(ip) ==
    CHOOSE i \in T6Covering(ip) :
        \A j \in T6Covering(ip) : t6Lines[j].net.ones <= t6Lines[i].net.ones

\* The last query asked for a full address.
T6Asked == t6Phase = "serve" /\ t6Q # NoName /\ parseReverseIP6(t6Q) # NoIP6

\* C23: Query on an ip6trie returns the value of the stored entry with the
\* longest nibble-aligned prefix covering the address (the default of the
\* dataset when the entry has no value of its own), and no match when that
\* entry is an exclusion or no entry covers the address.
C23_IP6LongestPrefix ==
    T6Asked =>
        LET ip == parseReverseIP6(t6Q)
        IN  IF T6Covering(ip) = {} \/ t6Lines[T6Longest(ip)].excluded
            THEN ~t6Res.found
            ELSE LET v == t6Lines[T6Longest(ip)].val
                     value == IF v = "" THEN t6DefVal ELSE v
                 IN  IF value = "" THEN ~t6Res.found
                     ELSE t6Res = [found |-> TRUE, value |-> value]

\* Whatever an ip6trie file holds, a query is answered by the root node or
\* not at all: the walk never finds a child.
T6OnlyRootAnswers ==
    T6Asked /\ t6Res.found =>
        /\ t6Nodes[RootPath].Value # ""
        /\ t6Res.value = t6Nodes[RootPath].Value

\* strings.Contains
HasSubstr(str, sub) ==
    \E i \in 1..Len(str) :
        i + Len(sub) - 1 <= Len(str) /\ SubSeq(str, i, i + Len(sub) - 1) = sub

\* The query IP followed by the name of a variable is in the output.
TxMunged(var) == HasSubstr(txOut, IPString(TxIP) \o Tail(var))

\* C24: the TXT of a query result of an IP dataset never holds the query IP
\* followed by the text TIMESTAMP, MAXRANGE4 or MAXRANGE6: the variables
\* are resolved before the bare $ is replaced by the IP.
C24_VariablesBeforeDollar ==
    txOut # NoOut =>
        /\ ~TxMunged(VarTIMESTAMP)
        /\ ~TxMunged(VarMAXRANGE4)
        /\ ~TxMunged(VarMAXRANGE6)

\* With a file time above 0 no $TIMESTAMP is left for the bare $, and with
\* a maxRange above 0 no $MAXRANGE4.
TxResolvedWhenSet ==
    txOut # NoOut =>
        /\ txDs.timestamp > 0 => ~TxMunged(VarTIMESTAMP)
        /\ txDs.maxRange > 0 => ~TxMunged(VarMAXRANGE4)

\* An ip4tset answered a template that holds $MAXRANGE4 with the query IP
\* followed by MAXRANGE4.
TxTSetMunged ==
    /\ txDs.kind = "ip4tset"
    /\ txDs.timestamp > 0
    /\ txTemplate = VarMAXRANGE4
    /\ TxMunged(VarMAXRANGE4)

\* An A query was answered for an entry whose value text is a bare IPv4
\* address.
VlBareAsked == vlA # NoAnswer /\ ParsesAsIP(vlText)

\* C25: an A query that matches an ip4trie, ip4set or dnset entry whose
\* return value is a bare IPv4 address is answered with that address.
C25_BareAddressIsARecord ==
    VlBareAsked => vlA = vlText

\* In an ip4set the bare address is the A record; in an ip4trie and a dnset
\* the address written as `:A:` or `:A:TXT` is.
VlWorkingForms ==
    /\ (VlBareAsked /\ vlKind = "ip4set") => vlA = vlText
    /\ (vlA # NoAnswer /\ vlKind # "ip4set" /\ vlText # <<>> /\ Head(vlText) = ":"
          /\ ParsesAsIP(SplitN2(Tail(vlText), ":")[1]))
            => vlA = SplitN2(Tail(vlText), ":")[1]

\* A bare address in an ip4trie or a dnset is answered with 127.0.0.2.
VlBareTakenForTXT ==
    /\ VlBareAsked
    /\ vlKind \in {"ip4trie", "dnset"}
    /\ vlA = Text127 \o <<"2">>
    /\ vlStored = Text127 \o <<"2", "|">> \o vlText

\* The bursts of file events: a burst starts with an event that finds no
\* timer pending, and goes on with every event that finds one.
DbBursts == { i \in 1..Len(dbEvts) : ~dbEvts[i].pending }

\* C26: a burst of file events in which each event arrives before the
\* timer armed by the one before it has fired gives exactly one call of
\* ReloadFile: for the file of the last event of the burst, and not before
\* the debounce delay after that event.
C26_BurstGivesOneReload ==
    /\ \A k \in 1..Len(dbRuns) :
          LET r == dbRuns[k]
          IN  /\ r.file = dbEvts[r.ev].file
              /\ r.at >= dbEvts[r.ev].at + reloadDebounce
              /\ r.ev < Len(dbEvts) => ~dbEvts[r.ev + 1].pending
              /\ \A j \in 1..Len(dbRuns) : dbRuns[j].ev = r.ev => j = k
    /\ Len(dbRuns) + Cardinality(dbCbs) + Cardinality(dbArmed) = Cardinality(DbBursts)

\* Three events for one file, each before the timer of the one before it
\* fired, and then the one call of ReloadFile, for the third.
C26_Witness ==
    /\ Len(dbEvts) = 3
    /\ dbEvts[2].pending /\ dbEvts[3].pending
    /\ dbEvts[1].file = dbEvts[2].file /\ dbEvts[2].file = dbEvts[3].file
    /\ dbEvts[3].at > dbEvts[1].at
    /\ Len(dbRuns) = 1
    /\ dbRuns[1].ev = 3
    /\ dbArmed = {} /\ dbCbs = {}

\* The rebuilds that are between their start and their return.
RbRunning == { t \in RbThreads : rbThr[t].pc \notin {"idle", "done"} }

\* C27: zone rebuilds never overlap and never publish out of order: the
\* entry of a zone is never written by a rebuild that started before the
\* one that wrote it last, and when no rebuild is running the published
\* dataset of a zone is the one of the most recent read of its files.
C27_RebuildsInOrder ==
    /\ Cardinality(RbRunning) <= 1
    /\ \A i, j \in 1..Len(rbStores) : i < j => rbStores[i] < rbStores[j]
    /\ RbRunning = {} /\ rbZone.ver # NoVer => rbZone.ver = rbLastRead

\* Two rebuilds are running at once, each in its goroutine.
RbOverlap == Cardinality(RbRunning) >= 2

\* No rebuild is running and the zone is published with the content of a
\* read that was not the last: the rebuild that started first stored last.
RbStalePublished ==
    /\ RbRunning = {}
    /\ rbZone.ver # NoVer
    /\ rbZone.ver < rbLastRead
    /\ \E t \in RbThreads : rbThr[t].seq > rbZone.by /\ rbThr[t].read = rbLastRead

\* C28: in every reload path the write lock of the registry is held only
\* for the statement that stores, deletes or swaps: a rebuild that holds
\* it has built its zone already, and no file was read with the lock held.
C28_LockOnlyAroundStore ==
    \A t \in RbThreads :
        /\ rbLock = t => rbThr[t].pc \in {"built", "stored"}
        /\ ~rbThr[t].underLock

\* A query got the read lock while a rebuild was reading its files, and
\* that rebuild has stored what it read since.
C28_Witness ==
    /\ rbSeen.loading
    /\ \E t \in RbThreads :
        /\ rbThr[t].pc = "done"
        /\ rbThr[t].read # NoVer
        /\ rbZone = [ver |-> rbThr[t].read, by |-> rbThr[t].seq]

RbConfigChanges == { t \in RbThreads : rbThr[t].kind \in {"added", "removed"} /\ rbThr[t].pc # "idle" }

RbLastChange(t) ==
    /\ t \in RbConfigChanges
    /\ \A u \in RbConfigChanges : rbThr[u].seq <= rbThr[t].seq

\* C31: once the config reload that removed the zone has completed, and no
\* later configuration has added it again, the zone is absent from the
\* registry: a ReloadFile that read the configuration before the removal
\* does not put it back.
C31_RemovedZoneStaysAbsent ==
    \A t \in RbThreads :
        RbLastChange(t) /\ rbThr[t].kind = "removed" /\ rbThr[t].pc = "done"
            => rbZone.ver = NoVer

\* The removal has completed, nothing is running, and the zone is in the
\* registry, stored by a ReloadFile that started before the removal.
RbFileReinserted ==
    \E t, u \in RbThreads :
        /\ RbLastChange(t) /\ rbThr[t].kind = "removed" /\ rbThr[t].pc = "done"
        /\ rbThr[u].kind = "file" /\ rbThr[u].pc = "done"
        /\ rbThr[u].seq < rbThr[t].seq
        /\ rbZone = [ver |-> rbThr[u].read, by |-> rbThr[u].seq]
        /\ rbZone.ver # NoVer
        /\ RbRunning = {}

\* C32: each worker parses exactly the bytes of the datagram it was
\* started for, whatever the loop reads while the worker runs, so the
\* response it sends answers the question of that datagram.
C32_WorkerParsesItsDatagram ==
    \A w \in 1..Len(bfWk) :
        bfWk[w].got = SubSeq(bfWk[w].sent, 1, Len(bfWk[w].got))

\* A worker has answered, to the client of its datagram, the whole
\* datagram of another client that the loop read after it.
BfAnsweredOther ==
    \E w, x \in 1..Len(bfWk) :
        /\ w < x
        /\ bfWk[w].pc = "sent"
        /\ bfWk[w].got # bfWk[w].sent
        /\ bfWk[w].got = bfWk[x].sent

\* A worker has parsed bytes of two datagrams, a message no client sent.
BfParsedMix ==
    \E w \in 1..Len(bfWk) :
        /\ bfWk[w].pc = "sent"
        /\ \A x \in 1..Len(bfWk) : bfWk[w].got # bfWk[x].sent

\* The worker of the last read of the loop, which no read follows, parses
\* its datagram.
BfAloneParsesOwn ==
    \A w \in 1..Len(bfWk) :
        w = Len(bfWk) => bfWk[w].got = SubSeq(bfWk[w].sent, 1, Len(bfWk[w].got))

\* C33: Reload and ReloadFile complete without a crash on every server
\* that New returned, also on one without a config manager, where they
\* leave the registry as it was.
C33_ReloadCompletes == opUp # "crashed"

\* A server that New returned without a config file path has crashed in
\* Reload, and one whose config manager could not be made in ReloadFile.
OpsReloadCrashed ==
    /\ opUp = "crashed" /\ ~opPath /\ opLast.op = "panic" /\ opLast.in = "Reload"

OpsReloadFileCrashed ==
    /\ opUp = "crashed" /\ opPath /\ ~opMgr /\ opLast.op = "panic" /\ opLast.in = "ReloadFile"

\* With a config manager the two calls never crash.
OpsNoCrashWithManager == opMgr => opUp # "crashed"

\* C34: a change event on a path the watcher watches on behalf of a zone
\* makes ReloadFile rebuild that zone, also when the zone is a combined
\* one whose file list gives the path behind a type prefix.
C34_WatchedPathRebuildsZone ==
    wtLast.op = "event" =>
        \A i \in 1..Len(wtCfg) :
            wtLast.path \in WatchedFor(wtCfg[i]) => wtCfg[i].Name \in wtLast.rebuilt

\* The file of a combined zone, given as ip4trie:fA and watched as fA, has
\* changed and ReloadFile found no zone to rebuild.
WtPrefixedNotRebuilt ==
    /\ wtLast.op = "event"
    /\ wtLast.path = <<"fA">>
    /\ wtLast.rebuilt = {}
    /\ \E i \in 1..Len(wtCfg) :
          \E j \in 1..Len(wtCfg[i].Files) : wtCfg[i].Files[j] = <<"ip4trie", ":", "fA">>

\* Every zone that gives the changed path without a prefix, or as its ACL
\* file, is rebuilt.
WtPlainRebuilt ==
    wtLast.op = "event" =>
        \A i \in 1..Len(wtCfg) :
            Affected(wtCfg[i], wtLast.path) => wtCfg[i].Name \in wtLast.rebuilt

\* The Adds and Removes the last updateFileWatcher had to make.
WtAttempted ==
    (shouldWatch(wtCfg) \ wtLast.before) \cup (wtLast.before \ shouldWatch(wtCfg))

\* C35: after handleConfigReload, when no Add and no Remove of the watcher
\* failed, the watched paths are the data files, without their type
\* prefix, and the ACL files of the new config, no more and no less.
C35_WatcherFollowsConfig ==
    wtLast.op = "update" /\ WtAttempted \cap wtLast.failing = {}
        => wtWatched = shouldWatch(wtCfg)

\* A config reload to a config with a combined zone made the watcher drop
\* a path and take a new one.
C35_Witness ==
    /\ wtLast.op = "update"
    /\ WtAttempted \cap wtLast.failing = {}
    /\ wtLast.before \ wtWatched # {}
    /\ wtWatched \ wtLast.before # {}
    /\ \E i \in 1..Len(wtCfg) : wtCfg[i].Type = "combined"
    /\ <<"fA">> \in wtWatched

\* The smallest prefix length of the entries of the loaded file.
TxMinOnes == CHOOSE m \in { txDs.ones[i] : i \in 1..Len(txDs.ones) } :
                 \A i \in 1..Len(txDs.ones) : m <= txDs.ones[i]

\* C36: the max-range value of a loaded ip4trie is the smallest prefix
\* length of its entries, also when an entry has prefix length 0, and a
\* query puts exactly that number in the place of $MAXRANGE4.
C36_MaxRangeIsMinPrefix ==
    txDs.kind = "ip4trie" =>
        /\ txDs.maxRange = TxMinOnes
        /\ txOut # NoOut /\ txTemplate = VarMAXRANGE4 => txOut = Decimal(TxMinOnes)

\* A file with a /0 entry and a /24 entry after it has the max-range 24.
TxMaxRangeNotMin ==
    /\ txDs.kind = "ip4trie"
    /\ txDs.ones = <<0, 24>>
    /\ txDs.maxRange = 24

\* A file whose last entry is a /0 has the max-range 0, and the query
\* answers $MAXRANGE4 with the query IP and the text MAXRANGE4.
TxMaxRangeZeroNotPut ==
    /\ txDs.kind = "ip4trie"
    /\ txDs.maxRange = 0
    /\ txTemplate = VarMAXRANGE4
    /\ txOut = IPString(TxIP) \o Tail(VarMAXRANGE4)

\* Without an entry of prefix length 0 the max-range is the smallest
\* prefix length and $MAXRANGE4 is answered with it.
TxMaxRangeRightAboveZero ==
    txDs.kind = "ip4trie" /\ (\A i \in 1..Len(txDs.ones) : txDs.ones[i] > 0) =>
        /\ txDs.maxRange = TxMinOnes
        /\ txOut # NoOut /\ txTemplate = VarMAXRANGE4 => txOut = Decimal(TxMinOnes)

\* The query was answered by a loaded dnset that holds, for one name, a
\* negated and a plain entry of the class: exact entries for the name
\* asked, or, with no exact entry for it, wildcard entries of one name that
\* the name asked lies under, and no other wildcard it lies under.
DNBothExact ==
    /\ dnPhase = "serve" /\ dnQ # NoName
    /\ \E i, j \in DNExactFor(DNAsked) : dnEntries[i].Negated /\ ~dnEntries[j].Negated

DNBothWild ==
    /\ dnPhase = "serve" /\ dnQ # NoName
    /\ DNExactFor(DNAsked) = {}
    /\ \E i, j \in DNWildFor(DNAsked) : dnEntries[i].Negated /\ ~dnEntries[j].Negated
    /\ \A i, j \in DNWildFor(DNAsked) : dnEntries[i].Name = dnEntries[j].Name

\* C37: in a dnset that holds both `name` and `!name`, or both `*.name`
\* and `!*.name`, Query of a matching name returns no match, whatever the
\* order of the two lines.
C37_NegatedWinsInClass ==
    DNBothExact \/ DNBothWild => dnRes = NoResult

\* The file `y.x :4:` then `!y.x`, loaded in this order, answers y.x.
DNPlainBeforeNegated ==
    /\ DNBothExact
    /\ Len(dnEntries) = 2
    /\ ~dnEntries[1].Negated /\ dnEntries[2].Negated
    /\ dnRes # NoResult

\* The same two lines with the negated one standing first answer no match.
DNNegatedBeforePlain ==
    /\ DNBothExact
    /\ Len(dnEntries) = 2
    /\ dnEntries[1].Negated /\ ~dnEntries[2].Negated
    /\ dnRes = NoResult

\* The entry of the class that stands first after the sort decides.
DNFirstOfClassDecides ==
    DNBothExact =>
        LET f == CHOOSE i \in DNExactFor(DNAsked) : \A j \in DNExactFor(DNAsked) : i <= j
        IN  (dnRes = NoResult) <=> dnEntries[f].Negated

\* The zones that the old and the new config both have, with a
\* configuration that is not the same in the two.
DcDiffering ==
    { n \in ConfigNames(dcOld) \cap ConfigNames(dcNew) :
        LastNamed(dcOld, n) # LastNamed(dcNew, n) }

\* C38: change detection lists a zone as updated whenever a field of its
\* configuration differs between the old and the new config, the inline
\* ACL rules among them, so that after the config reload the zone is the
\* one built from its new configuration.
C38_EveryDifferenceIsUpdate ==
    dcDone =>
        \A n \in DcDiffering :
            /\ n \in dcChanges.Updated
            /\ n \in DOMAIN dcZones
            /\ dcZones[n] = BuiltZone(LastNamed(dcNew, n), [f \in Files |-> 1])

\* A config reload gave zone b the inline rule deny 10.0.0.0/8: the zone
\* is not listed as updated and is published without an ACL, as before.
DcACLRuleChangeLost ==
    /\ dcDone
    /\ dcOld = <<ZcA>>
    /\ dcNew = <<[ZcA EXCEPT !.ACLRule.Deny = <<Net(<<10, 0, 0, 0>>, 8)>>]>>
    /\ dcChanges.Updated = {}
    /\ dcZones[NameB].acl = NoACL

\* A difference in the type, the files, the ACL file, the name servers or
\* the SOA of a zone makes it an updated zone, built from the new config.
DcOtherFieldsDetected ==
    dcDone =>
        \A n \in DcDiffering :
            LET o == LastNamed(dcOld, n)
                c == LastNamed(dcNew, n)
            IN  [o EXCEPT !.ACLRule = c.ACLRule] # c =>
                    /\ n \in dcChanges.Updated
                    /\ dcZones[n] = BuiltZone(c, [f \in Files |-> 1])

\* Shutdown has set the shutdown flag and closed the socket.
LsShutDown == lsSd = "closed" /\ lsSock = "closed"

\* C39: once Shutdown has set the shutdown flag and closed the socket, the
\* loop of ListenAndServe eventually exits and ListenAndServe returns, and a
\* read that fails or times out with the flag set is the last read: the
\* loop is left at once.
C39_LoopExitsAfterShutdown ==
    /\ [](lsFailed => lsPc = "returned")
    /\ (LsShutDown ~> (lsPc = "returned"))

\* Shutdown ran while the loop was in a read, after a worker had been
\* started: the read failed on the closed socket and ListenAndServe returned.
C39_Witness ==
    /\ LsShutDown
    /\ lsHandled > 0
    /\ lsFailed
    /\ lsAfter = 1
    /\ lsPc = "returned"

\* After Shutdown closed the socket the loop takes one more step, its exit.
LsExitsInOneStep ==
    /\ lsAfter <= 1
    /\ (lsAfter = 1 => lsPc = "returned")
    /\ (LsShutDown /\ lsPc # "returned" => ENABLED (LsCond \/ LsReadError))

\* Shutdown before the socket exists closes nothing, and the loop still
\* ends at its condition without a read.
LsShutdownBeforeListen ==
    lsSd = "closed" /\ lsPc = "returned" /\ lsHandled = 0 /\ lsTimeouts = 0 /\ ~lsFailed

====
